---- MODULE Spec2Model ----
(***************************************************************************)
(* Mirror synchronizer of the commercial RFP data pipeline:                *)
(* CitationMapper.upload_docx_files_to_SharePoint_and_create_citation_map  *)
(* and CitationMapper.delete_sharepoint_files_not_in_blob, in the          *)
(* worker-pool revision (src/1/...) and the sequential revision (src/...). *)
(*                                                                         *)
(* A file name is a pair <<stem, extension>>.  An item of the external     *)
(* folder is a record: its name, the identity the platform gave it, and    *)
(* whether the listing carries its "id" and "webUrl" fields (the code      *)
(* reads both with item.get and guards against their absence).  The        *)
(* webUrl of an item is modelled by its identity: two items never share    *)
(* one.  Names are compared as the code compares them, character by        *)
(* character: the folder keeps two names that differ in case as two items. *)
(* Nothing but the synchronizer writes to the store or the folder.         *)
(*                                                                         *)
(* Further down: the table functions of the cleaning stage (SpecPure), a   *)
(* run of commercial_rfp_data_cleaning (SpecRun) and the selection of the  *)
(* latest canonical dataset (SpecLatest), a call of clean_data on a sheet  *)
(* of cells (SpecClean), the rewriting of confirmation responses           *)
(* (SpecConfirm), a run of the document materializer (SpecMat), the paged  *)
(* listing of the external folder (SpecPages, SpecPagesFair) and one pass  *)
(* of each revision of the synchronizer from the same folder (SpecPair).   *)
(* Each specification holds the variables of the others at their idle      *)
(* values.                                                                 *)
(***************************************************************************)
EXTENDS Integers, Sequences, FiniteSets, TLC

\* ------------------------------------------------------------------ bounds
MaxStem == 1        \* file-name stems 1..MaxStem, each with every extension
MaxItems == 2       \* items in the external folder before the first pass
MaxPasses == 2      \* synchronization passes run in a row

\* --------------------------------------------------------------- constants
max_workers == 5    \* getattr(config_loader, "sharepoint_max_workers", 5)

Exts == {"docx", "DOCX", "txt"}
Names == (1..MaxStem) \X Exts
Revisions == {"pool", "seq"}

VARIABLES
    rev,             \* which revision of the synchronizer runs
    pass,            \* number of the current pass
    pc,              \* position of the main thread in the pass
    blobs,           \* names in the document-store container
    folder,          \* items of the external folder, in listing order
    mapping,         \* the mapping artifact in the output container
    items_before,    \* listing taken before the upload step
    existing_names,  \* names of items_before
    new_blob_names,  \* names selected for upload
    upTask,          \* state of the upload of new_blob_names[i]
    to_delete,       \* entries selected for deletion
    delTask,         \* state of the delete of to_delete[i]
    items_after,     \* listing taken after the delete step
    df,              \* table handed to upload_result_to_blob_container
    log,             \* log lines of the current pass
    steps,           \* steps the current pass has entered
    prev,            \* summary of the previous pass
    df_in,           \* table handed to a function of the cleaning stage
    df_out,          \* table the function returned
    applied,         \* the function that was applied to df_in
    crev,            \* which revision of commercial_rfp_data_cleaning runs
    cpc,             \* position of the run in commercial_rfp_data_cleaning
    workbook,        \* the workbook in the input folder
    frame,           \* the DataFrame the run holds
    raw_store,       \* the raw-data container
    library,         \* the content-library container
    log_store,       \* the logs container
    log_attempts,    \* writes of the log artifact the run attempted
    exc,             \* the exception the try body raised, "none" without one
    trace,           \* the statements the run has executed, in order
    listing,         \* the blobs of the content library, as list_blobs yields them
    latest,          \* what get_latest_rfp_content_library_blob returned
    lpc,             \* position of the call of get_latest_rfp_content_library_blob
    sheet,           \* the table handed to clean_data: its columns and its rows
    today,           \* the date of pd.Timestamp.now() in the call of clean_data
    cleaner,         \* which revision of clean_data was called
    cleaned,         \* what the call of clean_data came to
    mrev,            \* which revision of the document materializer runs
    mpc,             \* position of the materializer
    latest_blob_name, \* what get_latest_rfp_content_library_blob returned to it
    dataset,         \* the rows of the latest canonical dataset
    doc_store,       \* names in the per-record document container
    docs_before,     \* names in that container when the materializer was called
    mi,              \* the row of the dataset the materializer is at
    pages,           \* the pages the platform serves, by the number of their URL
    next_url,        \* next_url of _list_sharepoint_items, 0 for None
    got_items,       \* items of _list_sharepoint_items
    requested,       \* the URLs _list_sharepoint_items has requested, in order
    listed,          \* what _list_sharepoint_items returned
    ppc,             \* position of the call of _list_sharepoint_items
    pair             \* the two runs that are compared: the stage, the folder
                     \* both start from, and what the first run came to

\* the variables of the synchronizer
sync == <<rev, pass, pc, blobs, folder, mapping, items_before, existing_names,
          new_blob_names, upTask, to_delete, delTask, items_after, df, log,
          steps, prev>>

\* the variables of the cleaning functions
pure == <<df_in, df_out, applied>>

\* the variables of a run of commercial_rfp_data_cleaning
run == <<crev, cpc, workbook, frame, raw_store, library, log_store,
         log_attempts, exc, trace>>

\* the variables of a call of get_latest_rfp_content_library_blob
sel == <<listing, latest, lpc>>

\* the variables of a call of clean_data
cln == <<sheet, today, cleaner, cleaned>>

\* the variables of the document materializer
mat == <<mrev, mpc, latest_blob_name, dataset, doc_store, docs_before, mi>>

\* the variables of a call of _list_sharepoint_items
pag == <<pages, next_url, got_items, requested, listed, ppc>>

\* the variables of the specifications further down
more == <<cln, mat, pag, pair>>

\* everything the synchronizer leaves alone
rest == <<pure, run, sel, more>>

vars == <<sync, rest>>

locals == <<items_before, existing_names, new_blob_names, upTask, to_delete,
            delTask, items_after, df>>

\* ----------------------------------------------------------------- helpers
Range(s) == {s[i] : i \in DOMAIN s}

\* str.lower() on the extension of a name
Lower(ext) == IF ext = "DOCX" THEN "docx" ELSE ext

\* isinstance(name, str) and name.lower().endswith(".docx")
IsDocx(name) == Lower(name[2]) = "docx"

DocxOf(S) == {n \in S : IsDocx(n)}

ExtRank(e) == CASE e = "DOCX" -> 1 [] e = "docx" -> 2 [] OTHER -> 3

NameKey(n) == n[1] * 4 + ExtRank(n[2])

RECURSIVE SortNames(_)
SortNames(S) ==
    IF S = {} THEN <<>>
    ELSE LET m == CHOOSE x \in S : \A y \in S : NameKey(x) <= NameKey(y)
         IN <<m>> \o SortNames(S \ {m})

\* container_client.list_blobs(): the names of the container, in name order
list_blobs(container) == SortNames(container)

\* item.get("id"): 0 stands for a missing id
ItemId(item) == IF item.hasId THEN item.id ELSE 0

\* item.get("webUrl"): 0 stands for a missing webUrl
WebUrl(item) == IF item.hasUrl THEN item.id ELSE 0

FolderNames(f) == {f[i].name : i \in DOMAIN f}

MaxOf(S) == IF S = {} THEN 0 ELSE CHOOSE x \in S : \A y \in S : y <= x

FreshId(f) == MaxOf({f[i].id : i \in DOMAIN f}) + 1

\* PUT .../root:/{path}:/content answered 200/201: the item of that name is
\* created, or its content replaced when the name exists
PutContent(f, name) ==
    IF name \in FolderNames(f) THEN f
    ELSE Append(f, [name |-> name, id |-> FreshId(f), hasId |-> TRUE, hasUrl |-> TRUE])

\* DELETE .../items/{id} answered 204
DeleteItem(f, id) == SelectSeq(f, LAMBDA it : it.id # id)

InitFolders ==
    UNION { { [i \in 1..k |-> [name |-> g[i][1], id |-> i,
                               hasId |-> g[i][2], hasUrl |-> g[i][3]]] :
              g \in [1..k -> Names \X BOOLEAN \X BOOLEAN] } : k \in 0..MaxItems }

NoMapping == [exists |-> FALSE, rows |-> <<>>]
NoPrev == [ended |-> "none", clean |-> FALSE, df |-> <<>>]

\* no function of the cleaning stage is under way
PureIdle == df_in = <<>> /\ df_out = <<>> /\ applied = "none"

NoFrame == [header |-> "none", missing |-> "none", rows |-> <<>>]

NoName == [head |-> "", body |-> <<>>, tail |-> ""]

\* get_latest_rfp_content_library_blob is not called
SelIdle == listing = <<>> /\ latest = NoName /\ lpc = "idle"

NoSheet == [columns |-> {}, rows |-> <<>>]
NoResult == [outcome |-> "none", columns |-> {}, kept |-> <<>>, rows |-> <<>>]

\* clean_data is not called
ClnIdle == sheet = NoSheet /\ today = 0 /\ cleaner = "none" /\ cleaned = NoResult

\* commerercial_rfp_content_doc_library_creation is not called
MatIdle ==
    /\ mrev = "bundled"
    /\ mpc = "idle"
    /\ latest_blob_name = "None"
    /\ dataset = <<>>
    /\ doc_store = {}
    /\ docs_before = {}
    /\ mi = 0

NoListing == [returned |-> FALSE, items |-> <<>>]

\* _list_sharepoint_items is not called
PagIdle ==
    /\ pages = <<>>
    /\ next_url = 0
    /\ got_items = <<>>
    /\ requested = <<>>
    /\ listed = NoListing
    /\ ppc = "idle"

NoPair == [stage |-> "none", folder0 |-> <<>>, docx |-> {}, published |-> FALSE,
           files |-> {}, uploads |-> {}, deletes |-> {}]

\* no two runs are compared
PairIdle == pair = NoPair

MoreIdle == ClnIdle /\ MatIdle /\ PagIdle /\ PairIdle

\* commercial_rfp_data_cleaning is not called
RunIdle ==
    /\ crev = "refactored"
    /\ cpc = "idle"
    /\ workbook = NoFrame
    /\ frame = NoFrame
    /\ raw_store = {}
    /\ library = {}
    /\ log_store = {}
    /\ log_attempts = 0
    /\ exc = "none"
    /\ trace = <<>>

Init ==
    /\ rev \in Revisions
    /\ pass = 1
    /\ pc = "resolve"
    /\ blobs \in SUBSET Names
    /\ folder \in InitFolders
    /\ mapping = NoMapping
    /\ items_before = <<>>
    /\ existing_names = {}
    /\ new_blob_names = <<>>
    /\ upTask = <<>>
    /\ to_delete = <<>>
    /\ delTask = <<>>
    /\ items_after = <<>>
    /\ df = <<>>
    /\ log = {}
    /\ steps = {}
    /\ prev = NoPrev
    /\ PureIdle
    /\ RunIdle
    /\ SelIdle
    /\ MoreIdle

\* the outer "except Exception" of the pass: log and return
PassFailed ==
    /\ pc' = "failed"
    /\ log' = log \cup {"pass_failed"}

\* a listing raised inside the outer try of the pass
ListingFailed ==
    /\ pc' = "failed"
    /\ log' = log \cup {"pass_failed", "listing_failed"}

\* 1) token and site/drive resolution
ResolveSite(ok) ==
    /\ pc = "resolve"
    /\ IF ok THEN pc' = "list_before" /\ log' = log
             ELSE PassFailed
    /\ UNCHANGED <<rest, rev, pass, blobs, folder, mapping, locals, steps, prev>>

\* _list_sharepoint_items: every page of the folder listing, concatenated
list_sharepoint_items(f) == f

\* 2) list the folder once, before the upload step
ListBefore(ok) ==
    /\ pc = "list_before"
    /\ IF ok
       THEN /\ items_before' = list_sharepoint_items(folder)
            /\ existing_names' = {items_before'[i].name : i \in DOMAIN items_before'}
            /\ pc' = "plan_uploads"
            /\ log' = log
       ELSE /\ ListingFailed
            /\ UNCHANGED <<items_before, existing_names>>
    /\ UNCHANGED <<rest, rev, pass, blobs, folder, mapping, new_blob_names, upTask,
                   to_delete, delTask, items_after, df, steps, prev>>

\* mutant: every new name is put on the list twice
NewBlobNames_Twice(container, existing) ==
    LET new == SelectSeq(list_blobs(container), LAMBDA b : IsDocx(b) /\ b \notin existing)
    IN new \o new

\* mutant: the extension test without lower()
NewBlobNames_CaseSensitive(container, existing) ==
    SelectSeq(list_blobs(container), LAMBDA b : b[2] = "docx" /\ b \notin existing)

\* mutant: no skip of the names that exist in the folder
NewBlobNames_NoSkip(container, existing) ==
    SelectSeq(list_blobs(container), LAMBDA b : IsDocx(b))

\* 3) the .docx blobs whose name is not among the existing names
NewBlobNames(container, existing) ==
    SelectSeq(list_blobs(container), LAMBDA b : IsDocx(b) /\ b \notin existing)

Queued(n) == [i \in 1..n |-> "queued"]

PlanUploads(ok) ==
    /\ pc = "plan_uploads"
    /\ IF ok
       THEN /\ new_blob_names' = NewBlobNames(blobs, existing_names)
            /\ upTask' = Queued(Len(new_blob_names'))
            /\ pc' = "uploading"
            /\ steps' = steps \cup {"upload"}
            /\ log' = log
       ELSE /\ ListingFailed
            /\ UNCHANGED <<new_blob_names, upTask, steps>>
    /\ UNCHANGED <<rest, rev, pass, blobs, folder, mapping, items_before, existing_names,
                   to_delete, delTask, items_after, df, prev>>

Unfinished(tasks) == {i \in DOMAIN tasks : tasks[i] \in {"queued", "running"}}
Running(tasks) == {i \in DOMAIN tasks : tasks[i] = "running"}

\* the executor hands the queued tasks to its free workers in submission order
CanStart(tasks, i) ==
    /\ i \in DOMAIN tasks
    /\ tasks[i] = "queued"
    /\ \A j \in 1..(i - 1) : tasks[j] # "queued"
    /\ Cardinality(Running(tasks)) < max_workers

\* mutant: the pool is left without waiting (shutdown(wait=False))
PoolJoined_NoWait(tasks) == TRUE

\* leaving "with ThreadPoolExecutor(...)" waits for every submitted task
PoolJoined(tasks) == Unfinished(tasks) = {}

UploadOutcomes == {"ok", "http_error", "exception"}

\* 4) pool revision: a worker takes up _upload_single_blob_to_sharepoint
StartUpload(i) ==
    /\ rev = "pool"
    /\ CanStart(upTask, i)
    /\ upTask' = [upTask EXCEPT ![i] = "running"]
    /\ UNCHANGED <<rest, rev, pass, pc, blobs, folder, mapping, items_before,
                   existing_names, new_blob_names, to_delete, delTask,
                   items_after, df, log, steps, prev>>

\* _upload_single_blob_to_sharepoint returns: the item on 200/201, None on
\* another status, None on an exception of the download or of the request
FinishUpload(i, outcome) ==
    /\ rev = "pool"
    /\ i \in DOMAIN upTask
    /\ upTask[i] = "running"
    /\ upTask' = [upTask EXCEPT ![i] = outcome]
    /\ folder' = IF outcome = "ok" THEN PutContent(folder, new_blob_names[i])
                                   ELSE folder
    /\ UNCHANGED <<rest, rev, pass, pc, blobs, mapping, items_before, existing_names,
                   new_blob_names, to_delete, delTask, items_after, df, log,
                   steps, prev>>

\* sequential revision: the loop body for the next blob; an exception of the
\* download or of the request leaves the loop for the outer except
SeqUpload(outcome) ==
    /\ rev = "seq"
    /\ pc = "uploading"
    /\ Unfinished(upTask) # {}
    /\ LET i == CHOOSE k \in Unfinished(upTask) : \A j \in Unfinished(upTask) : k <= j
       IN /\ upTask' = [upTask EXCEPT ![i] = outcome]
          /\ folder' = IF outcome = "ok" THEN PutContent(folder, new_blob_names[i])
                                         ELSE folder
    /\ IF outcome = "exception" THEN PassFailed
                                ELSE pc' = pc /\ log' = log
    /\ UNCHANGED <<rest, rev, pass, blobs, mapping, items_before, existing_names,
                   new_blob_names, to_delete, delTask, items_after, df, steps,
                   prev>>

\* 5) the upload step is over: call delete_sharepoint_files_not_in_blob
JoinUploads ==
    /\ pc = "uploading"
    /\ PoolJoined(upTask)
    /\ pc' = "plan_deletes"
    /\ steps' = steps \cup {"delete"}
    /\ log' = log \cup {"cleanup_started"}
    /\ UNCHANGED <<rest, rev, pass, blobs, folder, mapping, locals, prev>>

\* mutant: the names of the store are tested with endswith(".docx") alone
ToDelete_StoreCaseSensitive(items, container) ==
    LET blob_docx_names == {b \in container : b[2] = "docx"}
        orphans == SelectSeq(items, LAMBDA it :
                       IsDocx(it.name) /\ it.name \notin blob_docx_names)
    IN [i \in 1..Len(orphans) |-> [id |-> ItemId(orphans[i]), name |-> orphans[i].name]]

\* mutant: every .docx item of the listing is selected
ToDelete_AllDocx(items, container) ==
    LET orphans == SelectSeq(items, LAMBDA it : IsDocx(it.name))
    IN [i \in 1..Len(orphans) |-> [id |-> ItemId(orphans[i]), name |-> orphans[i].name]]

\* mutant: no extension test on the items of the listing
ToDelete_AnyExtension(items, container) ==
    LET orphans == SelectSeq(items, LAMBDA it : it.name \notin container)
    IN [i \in 1..Len(orphans) |-> [id |-> ItemId(orphans[i]), name |-> orphans[i].name]]

\* the .docx items of the listing whose name is not a .docx blob name
ToDelete(items, container) ==
    LET blob_docx_names == {b \in container : IsDocx(b)}
        orphans == SelectSeq(items, LAMBDA it :
                       IsDocx(it.name) /\ it.name \notin blob_docx_names)
    IN [i \in 1..Len(orphans) |-> [id |-> ItemId(orphans[i]), name |-> orphans[i].name]]

\* delete step, 1)-3): list the blobs, list the folder, select; either listing
\* may raise into the step's own except, which logs and returns
PlanDeletes(ok) ==
    /\ pc = "plan_deletes"
    /\ IF ok
       THEN /\ to_delete' = ToDelete(list_sharepoint_items(folder), blobs)
            /\ delTask' = Queued(Len(to_delete'))
            /\ pc' = IF Len(to_delete') = 0 THEN "relist" ELSE "deleting"
            /\ log' = log
       ELSE /\ pc' = "relist"
            /\ log' = log \cup {"delete_failed", "listing_failed"}
            /\ UNCHANGED <<to_delete, delTask>>
    /\ UNCHANGED <<rest, rev, pass, blobs, folder, mapping, items_before, existing_names,
                   new_blob_names, upTask, items_after, df, steps, prev>>

\* what _delete_single can answer for an entry: no request without an id
DeleteOutcomes(entry) ==
    IF entry.id = 0 THEN {"skipped"} ELSE {"ok", "http_error", "exception"}

StartDelete(i) ==
    /\ rev = "pool"
    /\ CanStart(delTask, i)
    /\ delTask' = [delTask EXCEPT ![i] = "running"]
    /\ UNCHANGED <<rest, rev, pass, pc, blobs, folder, mapping, items_before,
                   existing_names, new_blob_names, upTask, to_delete,
                   items_after, df, log, steps, prev>>

\* _delete_single returns (True on 204, False otherwise) or raises into the
\* except around future.result()
FinishDelete(i, outcome) ==
    /\ rev = "pool"
    /\ i \in DOMAIN delTask
    /\ delTask[i] = "running"
    /\ outcome \in DeleteOutcomes(to_delete[i])
    /\ delTask' = [delTask EXCEPT ![i] = outcome]
    /\ folder' = IF outcome = "ok" THEN DeleteItem(folder, to_delete[i].id)
                                   ELSE folder
    /\ UNCHANGED <<rest, rev, pass, pc, blobs, mapping, items_before, existing_names,
                   new_blob_names, upTask, to_delete, items_after, df, log,
                   steps, prev>>

\* sequential revision: the loop body for the next entry; an exception of the
\* request leaves the loop for the step's own except, which logs and returns
SeqDelete(outcome) ==
    /\ rev = "seq"
    /\ pc = "deleting"
    /\ Unfinished(delTask) # {}
    /\ LET i == CHOOSE k \in Unfinished(delTask) : \A j \in Unfinished(delTask) : k <= j
       IN /\ outcome \in DeleteOutcomes(to_delete[i])
          /\ delTask' = [delTask EXCEPT ![i] = outcome]
          /\ folder' = IF outcome = "ok" THEN DeleteItem(folder, to_delete[i].id)
                                         ELSE folder
    /\ IF outcome = "exception"
       THEN pc' = "relist" /\ log' = log \cup {"delete_failed"}
       ELSE pc' = pc /\ log' = log
    /\ UNCHANGED <<rest, rev, pass, blobs, mapping, items_before, existing_names,
                   new_blob_names, upTask, to_delete, items_after, df, steps,
                   prev>>

\* the delete step returns to the pass
JoinDeletes ==
    /\ pc = "deleting"
    /\ PoolJoined(delTask)
    /\ pc' = "relist"
    /\ log' = log \cup {"cleanup_completed"}
    /\ UNCHANGED <<rest, rev, pass, blobs, folder, mapping, locals, steps, prev>>

\* 6) list the folder again, after the delete step
Relist(ok) ==
    /\ pc = "relist"
    /\ steps' = steps \cup {"relist"}
    /\ IF ok
       THEN /\ items_after' = list_sharepoint_items(folder)
            /\ pc' = "publish"
            /\ log' = log
       ELSE /\ ListingFailed
            /\ UNCHANGED items_after
    /\ UNCHANGED <<rest, rev, pass, blobs, folder, mapping, items_before, existing_names,
                   new_blob_names, upTask, to_delete, delTask, df, prev>>

\* mutant: the rows are built from the listing taken before the upload step
MappingRows_FromBefore(items) ==
    LET kept == SelectSeq(items_before, LAMBDA it : IsDocx(it.name) /\ WebUrl(it) # 0)
    IN [i \in 1..Len(kept) |-> [file_name |-> kept[i].name, preview_url |-> WebUrl(kept[i])]]

\* one row per .docx item of the listing that has a webUrl
MappingRows(items) ==
    LET kept == SelectSeq(items, LAMBDA it : IsDocx(it.name) /\ WebUrl(it) # 0)
    IN [i \in 1..Len(kept) |-> [file_name |-> kept[i].name, preview_url |-> WebUrl(kept[i])]]

\* df["file_name"].duplicated(keep=False).any()
HasDuplicates(rows) ==
    \E i, j \in DOMAIN rows : i # j /\ rows[i].file_name = rows[j].file_name

\* mutant: drop_duplicates(..., keep="first")
RECURSIVE DropDuplicatesKeepFirst(_)
DropDuplicatesKeepFirst(rows) ==
    IF rows = <<>> THEN <<>>
    ELSE LET n == Len(rows)
         IN IF \E j \in 1..(n - 1) : rows[j].file_name = rows[n].file_name
            THEN DropDuplicatesKeepFirst(SubSeq(rows, 1, n - 1))
            ELSE DropDuplicatesKeepFirst(SubSeq(rows, 1, n - 1)) \o <<rows[n]>>

\* df.drop_duplicates(subset=["file_name"], keep="last")
RECURSIVE DropDuplicatesKeepLast(_)
DropDuplicatesKeepLast(rows) ==
    IF rows = <<>> THEN <<>>
    ELSE IF \E j \in 2..Len(rows) : rows[j].file_name = rows[1].file_name
         THEN DropDuplicatesKeepLast(Tail(rows))
         ELSE <<rows[1]>> \o DropDuplicatesKeepLast(Tail(rows))

\* the table the pass builds from a listing
BuildMapping(items) == DropDuplicatesKeepLast(MappingRows(items))

\* 7) build the table, warn about duplicate keys, write the artifact;
\* upload_result_to_blob_container logs a failed write and returns
PublishMapping(writeOk) ==
    /\ pc = "publish"
    /\ steps' = steps \cup {"publish"}
    /\ df' = BuildMapping(items_after)
    /\ mapping' = IF writeOk THEN [exists |-> TRUE, rows |-> df'] ELSE mapping
    /\ log' = log
              \cup (IF HasDuplicates(MappingRows(items_after)) THEN {"dup_warning"} ELSE {})
              \cup (IF writeOk THEN {"blob_uploaded"} ELSE {"write_failed"})
              \cup {"mapping_written"}
    /\ pc' = "done"
    /\ UNCHANGED <<rest, rev, pass, blobs, folder, items_before, existing_names,
                   new_blob_names, upTask, to_delete, delTask, items_after, prev>>

AllOk(tasks) == \A i \in DOMAIN tasks : tasks[i] = "ok"

\* the pass made every call it set out to make, and every call succeeded
CleanPass ==
    /\ pc = "done"
    /\ AllOk(upTask)
    /\ AllOk(delTask)
    /\ "delete_failed" \notin log

\* the synchronizer is called again; nothing else wrote in between
NextPass ==
    /\ pc \in {"done", "failed"}
    /\ pass < MaxPasses
    /\ prev' = [ended |-> pc, clean |-> CleanPass, df |-> df]
    /\ pass' = pass + 1
    /\ pc' = "resolve"
    /\ items_before' = <<>>
    /\ existing_names' = {}
    /\ new_blob_names' = <<>>
    /\ upTask' = <<>>
    /\ to_delete' = <<>>
    /\ delTask' = <<>>
    /\ items_after' = <<>>
    /\ df' = <<>>
    /\ log' = {}
    /\ steps' = {}
    /\ UNCHANGED <<rest, rev, blobs, folder, mapping>>

Next ==
    \/ \E ok \in BOOLEAN : ResolveSite(ok)
    \/ \E ok \in BOOLEAN : ListBefore(ok)
    \/ \E ok \in BOOLEAN : PlanUploads(ok)
    \/ \E i \in 1..Len(upTask) : StartUpload(i)
    \/ \E i \in 1..Len(upTask), o \in UploadOutcomes : FinishUpload(i, o)
    \/ \E o \in UploadOutcomes : SeqUpload(o)
    \/ JoinUploads
    \/ \E ok \in BOOLEAN : PlanDeletes(ok)
    \/ \E i \in 1..Len(delTask) : StartDelete(i)
    \/ \E i \in 1..Len(delTask), o \in {"ok", "http_error", "exception", "skipped"} :
           FinishDelete(i, o)
    \/ \E o \in {"ok", "http_error", "exception", "skipped"} : SeqDelete(o)
    \/ JoinDeletes
    \/ \E ok \in BOOLEAN : Relist(ok)
    \/ \E ok \in BOOLEAN : PublishMapping(ok)
    \/ NextPass

Spec == Init /\ [][Next]_vars

(***************************************************************************)
(* Cleaning stage, the functions on tables.  A table is a sequence of rows *)
(* in index order; a text is a sequence of characters.  The functions of   *)
(* the three-stage revision (src/commercial_rfp_raw_data_ingestion_and_    *)
(* cleaning.py) and of the keyed revision (src/1/...) are applied to every *)
(* table of at most MaxRows rows.  sort_values is modelled as a stable     *)
(* sort: rows with equal sort keys keep their order.                       *)
(***************************************************************************)
MaxRows == 4        \* rows of a table handed to a function
MaxDate == 2        \* dates 1..MaxDate

snippet_len == 120  \* snippet = text[:120]

Whitespace == {" "}
Questions == << <<"a", " ", "b">>, <<"a", "b">> >>    \* in str order
Responses == { <<"y">>, <<"y", "e", "s">> }
Consultants == { <<"k">>, <<"m">> }
Clients == { <<"c">> }
RfpTypes == { <<"t">> }
Dates == 1..MaxDate

Rows == [client_name : Clients, rfp_type : RfpTypes, consultant : Consultants,
         date : Dates, question : Range(Questions), response : Responses]

\* the tables of n rows
Tables(n) == [1..n -> Rows]

\* the synchronizer does not run
SyncIdle ==
    /\ rev = "pool"
    /\ pass = 1
    /\ pc = "idle"
    /\ blobs = {}
    /\ folder = <<>>
    /\ mapping = NoMapping
    /\ items_before = <<>>
    /\ existing_names = {}
    /\ new_blob_names = <<>>
    /\ upTask = <<>>
    /\ to_delete = <<>>
    /\ delTask = <<>>
    /\ items_after = <<>>
    /\ df = <<>>
    /\ log = {}
    /\ steps = {}
    /\ prev = NoPrev

\* the indices I in the order of their keys, equal keys in index order
RECURSIVE StableOrder(_, _)
StableOrder(key, I) ==
    IF I = {} THEN <<>>
    ELSE LET m == CHOOSE i \in I :
                      \A j \in I : key[i] < key[j] \/ (key[i] = key[j] /\ i <= j)
         IN <<m>> \o StableOrder(key, I \ {m})

Reorder(rows, order) == [k \in 1..Len(order) |-> rows[order[k]]]

\* df[mask], df.loc[labels]: the rows of the index set I, in index order
Loc(rows, I) == Reorder(rows, StableOrder([i \in I |-> i], I))

\* df.sort_values(by=...), key[i] the rank of row i under the sort columns
sort_values(rows, key) == Reorder(rows, StableOrder(key, DOMAIN rows))

\* ~df.duplicated(subset=..., keep="first"), key[i] the subset columns of row i
KeepFirst(key) == {i \in DOMAIN key : \A j \in DOMAIN key : j < i => key[j] # key[i]}

\* ~df.duplicated(subset=..., keep="last")
KeepLast(key) == {i \in DOMAIN key : \A j \in DOMAIN key : j > i => key[j] # key[i]}

QuestionRank(q) == CHOOSE i \in DOMAIN Questions : Questions[i] = q

\* the rank of a row under by=['date', 'question']
DateQuestionKey(rows) ==
    [i \in DOMAIN rows |->
        rows[i].date * (Len(Questions) + 1) + QuestionRank(rows[i].question)]

\* three-stage revision, step 1: when some (question, response) group has
\* more than one row, drop_duplicates(subset=['question', 'response'])
drop_duplicates_same_question_and_response(rows) ==
    LET key == [i \in DOMAIN rows |-> <<rows[i].question, rows[i].response>>]
        duplicates == {i \in DOMAIN rows : \E j \in DOMAIN rows : j # i /\ key[j] = key[i]}
    IN IF duplicates # {} THEN Loc(rows, KeepFirst(key)) ELSE rows

\* three-stage revision, step 2: the rows whose date is among the maximum
\* dates of the questions that occur more than once, and the rows of the
\* questions that occur once; sorted by date and question
same_question_duplicate_response(rows) ==
    LET duplicates == {i \in DOMAIN rows :
                          \E j \in DOMAIN rows : j # i /\ rows[j].question = rows[i].question}
        dup_questions == {rows[i].question : i \in duplicates}
        max_dates == {MaxOf({rows[i].date : i \in {k \in duplicates : rows[k].question = q}}) :
                         q \in dup_questions}
        kept == Loc(rows, {i \in DOMAIN rows : \/ rows[i].date \in max_dates
                                               \/ rows[i].question \notin dup_questions})
    IN sort_values(kept, DateQuestionKey(kept))

\* mutant: per question the last row at the greatest character count
get_unique_date_question_with_longest_response_LastOfTies(rows) ==
    LET char_count == [i \in DOMAIN rows |-> Len(rows[i].response)]
        group(q) == {i \in DOMAIN rows : rows[i].question = q}
        idxmax(q) == CHOOSE i \in group(q) :
                         \A j \in group(q) : \/ char_count[j] < char_count[i]
                                             \/ char_count[j] = char_count[i] /\ j <= i
        picked == Loc(rows, {idxmax(rows[i].question) : i \in DOMAIN rows})
    IN sort_values(picked, DateQuestionKey(picked))

\* three-stage revision, step 3: per question the row at idxmax of the
\* character count of the response; sorted by date and question
get_unique_date_question_with_longest_response(rows) ==
    LET char_count == [i \in DOMAIN rows |-> Len(rows[i].response)]
        group(q) == {i \in DOMAIN rows : rows[i].question = q}
        idxmax(q) == CHOOSE i \in group(q) :
                         \A j \in group(q) : \/ char_count[j] < char_count[i]
                                             \/ char_count[j] = char_count[i] /\ i <= j
        picked == Loc(rows, {idxmax(rows[i].question) : i \in DOMAIN rows})
    IN sort_values(picked, DateQuestionKey(picked))

\* three-stage revision: the three steps as commercial_rfp_data_cleaning
\* chains them on the table clean_data returned
dedup_chain(rows) ==
    get_unique_date_question_with_longest_response(
        same_question_duplicate_response(
            drop_duplicates_same_question_and_response(rows)))

\* keyed revision, step 1: drop_duplicates on client name, rfp type,
\* consultant, question and response
drop_duplicates_same_question_and_response_rev1(rows) ==
    Loc(rows, KeepFirst([i \in DOMAIN rows |->
            <<rows[i].client_name, rows[i].rfp_type, rows[i].consultant,
              rows[i].question, rows[i].response>>]))

\* keyed revision, step 2: sort by date, then keep the last row of every
\* (date, client name, rfp type, consultant, question)
drop_duplicate_for_same_date_question(rows) ==
    LET sorted == sort_values(rows, [i \in DOMAIN rows |-> rows[i].date])
    IN Loc(sorted, KeepLast([i \in DOMAIN sorted |->
            <<sorted[i].date, sorted[i].client_name, sorted[i].rfp_type,
              sorted[i].consultant, sorted[i].question>>]))

\* str.strip()
RECURSIVE strip(_)
strip(text) ==
    IF text = <<>> THEN <<>>
    ELSE IF Head(text) \in Whitespace THEN strip(Tail(text))
    ELSE IF text[Len(text)] \in Whitespace THEN strip(SubSeq(text, 1, Len(text) - 1))
    ELSE text

\* keyed revision, step 3: sort by the length of the stripped question,
\* longest first, then keep the first row of every stripped question
drop_duplicates_for_similar_questions(rows) ==
    LET question_clean == [i \in DOMAIN rows |-> strip(rows[i].question)]
        sorted == sort_values(rows, [i \in DOMAIN rows |-> 0 - Len(question_clean[i])])
    IN Loc(sorted, KeepFirst([i \in DOMAIN sorted |-> strip(sorted[i].question)]))

\* date.dt.strftime("%Y-%m-%d"): one text per date
strftime(date) == <<ToString(date)>>

\* f"{client}_{date}_{rfp_type}_{consultant}_{question}" of the stripped fields
build_key(row) ==
    strip(row.client_name) \o <<"_">> \o strftime(row.date) \o <<"_">>
        \o strip(row.rfp_type) \o <<"_">> \o strip(row.consultant) \o <<"_">>
        \o strip(row.question)

\* str.replace(r"\s+", "", regex=True)
remove_whitespace(text) == SelectSeq(text, LAMBDA c : c \notin Whitespace)

\* hashlib.md5(...).hexdigest(): no two texts of the model share a digest
md5(text) == <<"md5", text>>

\* _key_from_hash: the digest of the first snippet_len characters
key_from_hash(text) ==
    LET snippet == SubSeq(text, 1, IF Len(text) < snippet_len THEN Len(text) ELSE snippet_len)
    IN <<"RFP_Content_", md5(snippet)>>

\* _add_rfp_keys: the columns "key" and "key_hash"
add_rfp_keys(rows) ==
    [i \in DOMAIN rows |->
        [client_name |-> rows[i].client_name, rfp_type |-> rows[i].rfp_type,
         consultant |-> rows[i].consultant, date |-> rows[i].date,
         question |-> rows[i].question, response |-> rows[i].response,
         key |-> build_key(rows[i]),
         key_hash |-> key_from_hash(remove_whitespace(build_key(rows[i])))]]

\* keyed revision: the steps as commercial_rfp_data_cleaning chains them on
\* the table clean_data returned, up to the table it writes
keyed_chain(rows) ==
    add_rfp_keys(
        drop_duplicates_for_similar_questions(
            drop_duplicate_for_same_date_question(
                drop_duplicates_same_question_and_response_rev1(rows))))

InitPure ==
    /\ \E n \in 0..MaxRows : df_in \in Tables(n)
    /\ df_out = <<>>
    /\ applied = "none"
    /\ SyncIdle
    /\ RunIdle
    /\ SelIdle
    /\ MoreIdle

Apply(name, out) ==
    /\ applied = "none"
    /\ applied' = name
    /\ df_out' = out
    /\ UNCHANGED <<df_in, sync, run, sel, more>>

Step1 == Apply("step1", drop_duplicates_same_question_and_response(df_in))
Step2 == Apply("step2", same_question_duplicate_response(df_in))
Step3 == Apply("step3", get_unique_date_question_with_longest_response(df_in))
DedupChain == Apply("dedup_chain", dedup_chain(df_in))
Step1Rev1 == Apply("step1_rev1", drop_duplicates_same_question_and_response_rev1(df_in))
SameDateQuestion == Apply("same_date_question", drop_duplicate_for_same_date_question(df_in))
SimilarQuestions == Apply("similar_questions", drop_duplicates_for_similar_questions(df_in))

\* df["key"].str.replace(r"\s+", "", "", regex=True) hands "" to the count
\* parameter n of Series.str.replace: the library either raises TypeError on
\* comparing it with 0, or replaces every match
StrReplaceOutcomes == {"replaced", "type_error"}

AddKeys(outcome) ==
    IF outcome = "replaced" THEN Apply("add_rfp_keys", add_rfp_keys(df_in))
                            ELSE Apply("add_rfp_keys_raised", <<>>)

KeyedChain(outcome) ==
    IF outcome = "replaced" THEN Apply("keyed_chain", keyed_chain(df_in))
                            ELSE Apply("keyed_chain_raised", <<>>)

NextPure ==
    \/ Step1
    \/ Step2
    \/ Step3
    \/ DedupChain
    \/ Step1Rev1
    \/ SameDateQuestion
    \/ SimilarQuestions
    \/ \E o \in StrReplaceOutcomes : AddKeys(o)
    \/ \E o \in StrReplaceOutcomes : KeyedChain(o)

SpecPure == InitPure /\ [][NextPure]_vars


(***************************************************************************)
(* Cleaning stage, a run of DataIngestion.commercial_rfp_data_cleaning, in  *)
(* three revisions: "three_stage" (src/commercial_rfp_raw_data_ingestion_  *)
(* and_cleaning.py), "refactored" (the copy of it bundled in              *)
(* src/commerical_rfp_data_ingestion_main.py, which reads its settings     *)
(* through self) and "keyed" (src/1/...).  The workbook of the input       *)
(* folder is a header (capitalised as typed, or lower-case), the required  *)
(* column it lacks if any, and its rows; the cells of the model are        *)
(* normalized texts.  Every call of a remote service may fail.             *)
(***************************************************************************)
MaxInputRows == 2   \* rows of the workbook in the input folder

CleanRevisions == {"three_stage", "refactored", "keyed"}
Headers == {"Title", "lower"}
Missing == {"none", "question", "response"}

InputTables == UNION { [1..n -> Rows] : n \in 0..MaxInputRows }
Workbooks == [header : Headers, missing : Missing, rows : InputTables]

\* mutant: the write of the canonical dataset placed ahead of the dedup calls
TryBody_PublishEarly(r) ==
    IF r = "keyed"
    THEN <<"token", "download", "archive", "clean_data", "publish", "dedup",
           "confirm", "keys">>
    ELSE <<"token", "download", "archive", "clean_data", "publish", "dedup",
           "confirm", "log">>

\* the statements of the try body of commercial_rfp_data_cleaning, in order
TryBody(r) ==
    IF r = "keyed"
    THEN <<"token", "download", "archive", "clean_data", "dedup", "confirm",
           "keys", "publish">>
    ELSE <<"token", "download", "archive", "clean_data", "dedup", "confirm",
           "publish", "log">>

\* the statement after a statement that completed; "returned" after the last
After(r, stmt) ==
    LET body == TryBody(r)
        k == CHOOSE i \in DOMAIN body : body[i] = stmt
    IN IF k = Len(body) THEN "returned" ELSE body[k + 1]

\* df.columns.str.lower()
lower_header(h) == IF h = "Title" THEN "lower" ELSE h

\* clean_data of the three-stage revisions raises KeyError without a
\* 'question' or a 'response' column
clean_data_raises(r, f) == r # "keyed" /\ f.missing # "none"

\* clean_data: the keyed revision returns pd.DataFrame() without a 'response'
\* column; the rows of the model pass every row filter
clean_data(r, f) ==
    IF r = "keyed" /\ f.missing = "response"
    THEN [header |-> "lower", missing |-> "all", rows |-> <<>>]
    ELSE f

\* drop_duplicates(subset=[...]) raises KeyError for a column that is absent
dedup_raises(r, f) == r = "keyed" /\ f.missing # "none"

\* the dedup calls of the try body
dedup(r, rows) ==
    IF r = "keyed"
    THEN drop_duplicates_for_similar_questions(
             drop_duplicate_for_same_date_question(
                 drop_duplicates_same_question_and_response_rev1(rows)))
    ELSE dedup_chain(rows)

ConfirmedWords == {"CONFIRMED", "Confirmed", "confirmed"}
YesWords == {"YES", "Yes", "yes"}

\* the length of a match of Yes\.\s*Confirmed\. at the head of text, 0 without
YesConfirmedMatch(text) ==
    IF Len(text) >= 4 /\ text[1] \in YesWords /\ text[2] = "."
    THEN LET rest_idx == {k \in 3..Len(text) : text[k] \notin Whitespace}
         IN IF rest_idx = {} THEN 0
            ELSE LET k == CHOOSE i \in rest_idx : \A j \in rest_idx : i <= j
                 IN IF k < Len(text) /\ text[k] \in ConfirmedWords /\ text[k + 1] = "."
                    THEN k + 1 ELSE 0
    ELSE 0

\* str.replace(r'(?i)(CONFIRMED|CONFIRMED\.|...|Yes\.\s*Confirmed\.)',
\* 'Confirmed', regex=True) on one text: at every position the first
\* alternative that matches is replaced, and the word alone is the first
RECURSIVE rewrite_confirmed(_)
rewrite_confirmed(text) ==
    IF text = <<>> THEN <<>>
    ELSE IF Head(text) \in ConfirmedWords
         THEN <<"Confirmed">> \o rewrite_confirmed(Tail(text))
    ELSE IF YesConfirmedMatch(text) > 0
         THEN <<"Confirmed">>
                  \o rewrite_confirmed(SubSeq(text, YesConfirmedMatch(text) + 1, Len(text)))
    ELSE <<Head(text)>> \o rewrite_confirmed(Tail(text))

confirm_rewrite(rows) ==
    [i \in DOMAIN rows |-> [rows[i] EXCEPT !.response = rewrite_confirmed(@)]]

InitRun ==
    /\ crev \in CleanRevisions
    /\ cpc = "token"
    /\ workbook \in Workbooks
    /\ frame = NoFrame
    /\ raw_store = {}
    /\ library = {}
    /\ log_store = {}
    /\ log_attempts = 0
    /\ exc = "none"
    /\ trace = <<>>
    /\ SyncIdle
    /\ PureIdle
    /\ SelIdle
    /\ MoreIdle

\* a statement of the try body raises: control goes to "except Exception"
Raise(stmt, name) ==
    /\ cpc' = "handler"
    /\ exc' = name
    /\ trace' = trace \o <<stmt, "raised">>

\* a statement of the try body completes
Done(stmt) ==
    /\ cpc' = After(crev, stmt)
    /\ exc' = exc
    /\ trace' = Append(trace, stmt)

\* get_graph_access_token; the three-stage revision names cert_path,
\* thumbprint, client_id and tenant_id, which are attributes of the class
\* and no names of the method's scope: NameError
GetToken(ok) ==
    /\ cpc = "token"
    /\ IF crev = "three_stage" THEN Raise("token", "NameError")
       ELSE IF ok THEN Done("token")
       ELSE Raise("token", "Exception")
    /\ UNCHANGED <<crev, workbook, frame, raw_store, library, log_store,
                   log_attempts, sync, pure, sel, more>>

\* download_latest_excel_from_sharepoint_folder, pd.read_excel, and
\* df_rfp.columns = df_rfp.columns.str.lower()
Download(ok) ==
    /\ cpc = "download"
    /\ IF ok THEN /\ frame' = [workbook EXCEPT !.header = lower_header(@)]
                  /\ Done("download")
             ELSE /\ frame' = frame
                  /\ Raise("download", "HTTPError")
    /\ UNCHANGED <<crev, workbook, raw_store, library, log_store, log_attempts,
                   sync, pure, sel, more>>

\* the write of df_rfp to the raw-data container: upload_to_blob logs a
\* failure and raises it again, upload_result_to_blob_container (keyed
\* revision) logs it and returns
ArchiveRaw(ok) ==
    /\ cpc = "archive"
    /\ raw_store' = IF ok THEN {frame} ELSE raw_store
    /\ IF ok \/ crev = "keyed" THEN Done("archive")
                               ELSE Raise("archive", "AzureError")
    /\ UNCHANGED <<crev, workbook, frame, library, log_store, log_attempts,
                   sync, pure, sel, more>>

CleanData ==
    /\ cpc = "clean_data"
    /\ IF clean_data_raises(crev, frame)
       THEN /\ frame' = frame
            /\ Raise("clean_data", "KeyError")
       ELSE /\ frame' = clean_data(crev, frame)
            /\ Done("clean_data")
    /\ UNCHANGED <<crev, workbook, raw_store, library, log_store, log_attempts,
                   sync, pure, sel, more>>

Dedup ==
    /\ cpc = "dedup"
    /\ IF dedup_raises(crev, frame)
       THEN /\ frame' = frame
            /\ Raise("dedup", "KeyError")
       ELSE /\ frame' = [frame EXCEPT !.rows = dedup(crev, @)]
            /\ Done("dedup")
    /\ UNCHANGED <<crev, workbook, raw_store, library, log_store, log_attempts,
                   sync, pure, sel, more>>

ConfirmRewrite ==
    /\ cpc = "confirm"
    /\ frame' = [frame EXCEPT !.rows = confirm_rewrite(@)]
    /\ Done("confirm")
    /\ UNCHANGED <<crev, workbook, raw_store, library, log_store, log_attempts,
                   sync, pure, sel, more>>

\* keyed revision: final_rfp_df = self._add_rfp_keys(final_rfp_df)
DeriveKeys(outcome) ==
    /\ cpc = "keys"
    /\ IF outcome = "replaced"
       THEN /\ frame' = [frame EXCEPT !.rows = add_rfp_keys(@)]
            /\ Done("keys")
       ELSE /\ frame' = frame
            /\ Raise("keys", "TypeError")
    /\ UNCHANGED <<crev, workbook, raw_store, library, log_store, log_attempts,
                   sync, pure, sel, more>>

\* the write of RFP_content_library_{YYYYMMDD}.xlsx to the content library
PublishDataset(ok) ==
    /\ cpc = "publish"
    /\ library' = IF ok THEN {frame.rows} ELSE library
    /\ IF ok \/ crev = "keyed" THEN Done("publish")
                               ELSE Raise("publish", "AzureError")
    /\ UNCHANGED <<crev, workbook, frame, raw_store, log_store, log_attempts,
                   sync, pure, sel, more>>

\* upload_log_to_blob logs a failed write and returns
upload_log_to_blob(ok) ==
    /\ log_attempts' = log_attempts + 1
    /\ log_store' = IF ok THEN {"log"} ELSE log_store

\* the last statement of the try body of the three-stage revisions
UploadLog(ok) ==
    /\ cpc = "log"
    /\ upload_log_to_blob(ok)
    /\ Done("log")
    /\ UNCHANGED <<crev, workbook, frame, raw_store, library, sync, pure, sel, more>>

\* "except Exception": logger.exception, then the log upload in the
\* three-stage revisions, and return.  The three-stage revision names
\* log_file_name and config_loader, attributes of the class: NameError, which
\* leaves the method
Handler(ok) ==
    /\ cpc = "handler"
    /\ IF crev = "three_stage"
       THEN /\ cpc' = "raised"
            /\ UNCHANGED <<log_store, log_attempts>>
       ELSE IF crev = "refactored"
       THEN /\ cpc' = "returned"
            /\ upload_log_to_blob(ok)
       ELSE /\ cpc' = "returned"
            /\ UNCHANGED <<log_store, log_attempts>>
    /\ trace' = Append(trace, "handler")
    /\ UNCHANGED <<crev, workbook, frame, raw_store, library, exc, sync, pure, sel, more>>

NextRun ==
    \/ \E ok \in BOOLEAN : GetToken(ok)
    \/ \E ok \in BOOLEAN : Download(ok)
    \/ \E ok \in BOOLEAN : ArchiveRaw(ok)
    \/ CleanData
    \/ Dedup
    \/ ConfirmRewrite
    \/ \E o \in StrReplaceOutcomes : DeriveKeys(o)
    \/ \E ok \in BOOLEAN : PublishDataset(ok)
    \/ \E ok \in BOOLEAN : UploadLog(ok)
    \/ \E ok \in BOOLEAN : Handler(ok)

SpecRun == InitRun /\ [][NextRun]_vars


(***************************************************************************)
(* Document stage, get_latest_rfp_content_library_blob.  A blob name is a   *)
(* head, a body and a tail; the body is a sequence of characters that holds *)
(* neither the prefix nor ".xlsx".  list_blobs may yield the blobs in any   *)
(* order, each with a last-modified stamp.                                  *)
(***************************************************************************)
MaxBlobs == 3       \* blobs in the content-library container

Prefix == "RFP_content_library_"
Heads == {Prefix, "RFP_Content_Library_"}
Tails == {".xlsx", ".docx"}
Bodies == { <<"2", "0", "2", "4", "0", "1", "0", "1">>,
            <<"2", "0", "2", "4", "1", "1", "0", "5">>,
            <<"2", "0", "2", "4", "1", "1", "5">>,
            <<"b", "a", "k">> }
BlobNames == [head : Heads, body : Bodies, tail : Tails]
Stamps == 1..MaxBlobs

\* the listings of n blobs: no two blobs of a container share a name
Listings(n) ==
    { l \in [1..n -> [name : BlobNames, last_modified : Stamps]] :
          \A i, j \in 1..n : i # j => l[i].name # l[j].name }

DigitChars == <<"0", "1", "2", "3", "4", "5", "6", "7", "8", "9">>
IsDigit(c) == \E i \in DOMAIN DigitChars : DigitChars[i] = c
DigitValue(c) == (CHOOSE i \in DOMAIN DigitChars : DigitChars[i] = c) - 1

AllDigits(text, a, b) == \A i \in a..b : i \in DOMAIN text /\ IsDigit(text[i])

\* int(text[a..b])
RECURSIVE Number(_, _, _)
Number(text, a, b) ==
    IF a > b THEN 0 ELSE Number(text, a, b - 1) * 10 + DigitValue(text[b])

\* %m at position p in w characters: 1[0-2]|0[1-9], or [1-9]
MonthAt(text, p, w) ==
    /\ AllDigits(text, p, p + w - 1)
    /\ Number(text, p, p + w - 1) \in (IF w = 2 THEN 1..12 ELSE 1..9)

\* %d at position p in w characters: 3[01]|[12]\d|0[1-9], or [1-9]
DayAt(text, p, w) ==
    /\ AllDigits(text, p, p + w - 1)
    /\ Number(text, p, p + w - 1) \in (IF w = 2 THEN 1..31 ELSE 1..9)

DaysInMonth(y, m) ==
    IF m = 2 THEN (IF y % 4 = 0 /\ (y % 100 # 0 \/ y % 400 = 0) THEN 29 ELSE 28)
    ELSE IF m \in {4, 6, 9, 11} THEN 30 ELSE 31

\* datetime.strptime(text, "%Y%m%d") as the number YYYYMMDD of the date, 0
\* for ValueError.  The format is matched as a regular expression, two
\* characters tried before one for the month and for the day, the first
\* match taken; the match must end where the text ends and name a date
strptime(text) ==
    LET widths == << <<2, 2>>, <<2, 1>>, <<1, 2>>, <<1, 1>> >>
        matches(k) == /\ AllDigits(text, 1, 4)
                      /\ MonthAt(text, 5, widths[k][1])
                      /\ DayAt(text, 5 + widths[k][1], widths[k][2])
        found == {k \in DOMAIN widths : matches(k)}
    IN IF found = {} THEN 0
       ELSE LET k == CHOOSE i \in found : \A j \in found : i <= j
                y == Number(text, 1, 4)
                m == Number(text, 5, 4 + widths[k][1])
                d == Number(text, 5 + widths[k][1], 4 + widths[k][1] + widths[k][2])
            IN IF 4 + widths[k][1] + widths[k][2] = Len(text) /\ d <= DaysInMonth(y, m)
               THEN y * 10000 + m * 100 + d
               ELSE 0

\* name.replace("RFP_content_library_", "").replace(".xlsx", "")
date_part(name) == name.body

\* startswith, endswith, and strptime without an exception
Qualifies(name) ==
    /\ name.head = Prefix
    /\ name.tail = ".xlsx"
    /\ strptime(date_part(name)) # 0

\* max(files, key=lambda x: x[1])[0]: the first of the names at the latest
\* date; None without a qualifying name
get_latest_rfp_content_library_blob(blobs_listed) ==
    LET files == SelectSeq(blobs_listed, LAMBDA b : Qualifies(b.name))
        file_date(i) == strptime(date_part(files[i].name))
    IN IF files = <<>> THEN NoName
       ELSE files[CHOOSE i \in DOMAIN files :
                      \A j \in DOMAIN files :
                          \/ file_date(j) < file_date(i)
                          \/ file_date(j) = file_date(i) /\ i <= j].name

InitLatest ==
    /\ \E n \in 0..MaxBlobs : listing \in Listings(n)
    /\ latest = NoName
    /\ lpc = "call"
    /\ SyncIdle
    /\ PureIdle
    /\ RunIdle
    /\ MoreIdle

GetLatest ==
    /\ lpc = "call"
    /\ latest' = get_latest_rfp_content_library_blob(listing)
    /\ lpc' = "returned"
    /\ UNCHANGED <<listing, sync, pure, run, more>>

NextLatest == GetLatest

SpecLatest == InitLatest /\ [][NextLatest]_vars


(***************************************************************************)
(* Cleaning stage, a call of DataIngestion.clean_data on a sheet of cells.  *)
(* The sheet is what pd.read_excel returned, its header in lower case: the  *)
(* columns it has and its rows.  A text cell is a sequence of units (words, *)
(* whitespace), an empty cell is NaN.  A date cell is written in one of the *)
(* forms parse_dates accepts, or holds a text that is no date.  A row       *)
(* carries the cell of its response-equivalent column in "response".       *)
(***************************************************************************)
MaxSheetRows == 1   \* rows of the sheet handed to clean_data

cutoff_months == 36 \* pd.DateOffset(months=36)

SheetColumns == {"date", "question", "response", "fixed answer"}

NaN == [kind |-> "nan", text |-> <<>>]
Str(text) == [kind |-> "str", text |-> text]

NaT == 0

\* the date cells: a, b, c are the numbers of the cell in the order written
DateCell(form, date) ==
    LET y == date \div 10000
        m == (date \div 100) % 100
        d == date % 100
    IN IF form = "%m/%d/%Y" THEN [form |-> form, a |-> m, b |-> d, c |-> y]
                            ELSE [form |-> form, a |-> y, b |-> m, c |-> d]

CellDates == {20210227, 20210228, 20211104, 20211105, 20211106}
Todays == {20240229, 20241105}

DateCells ==
    {DateCell("timestamp", t) : t \in CellDates}
        \cup {DateCell("%m/%d/%Y", 20211105), DateCell("%Y-%m-%d", 20211105),
              [form |-> "nan", a |-> 0, b |-> 0, c |-> 0],
              [form |-> "text", a |-> 0, b |-> 0, c |-> 0]}

QuestionCells ==
    {NaN, Str(<<"q">>), Str(<<"None">>), Str(<<"N/A">>), Str(<<"Contact">>),
     Str(<<" ", "q", " ", " ", "r">>)}

ResponseCells ==
    {NaN, Str(<<"r">>), Str(<<"NONE">>), Str(<<"nan">>), Str(<<"n/a">>),
     Str(<<"Not", " ", "applicable.">>), Str(<<" ">>)}

SheetRows == [date : DateCells, question : QuestionCells, response : ResponseCells]

\* the sheets of n rows
Sheets(n) == [columns : SUBSET SheetColumns, rows : [1..n -> SheetRows]]

ValidDate(y, m, d) == m \in 1..12 /\ d \in 1..DaysInMonth(y, m)

\* parse_dates on str(cell): '%m/%d/%Y', then '%Y-%m-%d', then
\* pd.to_datetime(date, errors='coerce'), which reads the str of an Excel
\* date cell and gives NaT for "nan" and for a text that is no date
parse_dates(cell) ==
    IF cell.form = "%m/%d/%Y" /\ ValidDate(cell.c, cell.a, cell.b)
    THEN cell.c * 10000 + cell.a * 100 + cell.b
    ELSE IF cell.form \in {"%Y-%m-%d", "timestamp"} /\ ValidDate(cell.a, cell.b, cell.c)
    THEN cell.a * 10000 + cell.b * 100 + cell.c
    ELSE NaT

\* date - pd.DateOffset(months=n): the same day n months earlier, the last
\* day of that month when the month is shorter
minus_months(date, n) ==
    LET y == date \div 10000
        m == (date \div 100) % 100
        d == date % 100
        total == y * 12 + (m - 1) - n
        y2 == total \div 12
        m2 == (total % 12) + 1
        d2 == IF d <= DaysInMonth(y2, m2) THEN d ELSE DaysInMonth(y2, m2)
    IN y2 * 10000 + m2 * 100 + d2

\* (pd.Timestamp.now() - pd.DateOffset(months=36)).date()
cutoff_date(now) == minus_months(now, cutoff_months)

\* str(x) of a cell
str(cell) == IF cell.kind = "nan" THEN <<"nan">> ELSE cell.text

\* re.sub(r'\s+', ' ', text)
RECURSIVE collapse(_)
collapse(text) ==
    IF text = <<>> THEN <<>>
    ELSE IF Head(text) \in Whitespace
         THEN IF Len(text) > 1 /\ text[2] \in Whitespace
              THEN collapse(Tail(text))
              ELSE <<" ">> \o collapse(Tail(text))
    ELSE <<Head(text)>> \o collapse(Tail(text))

\* the lambda of df.applymap
applymap_cell(cell) == strip(collapse(str(cell)))

\* str.lower(), unit by unit
lower_unit(u) ==
    CASE u \in {"None", "NONE"} -> "none"
      [] u \in {"NaN", "NAN"} -> "nan"
      [] u = "N/A" -> "n/a"
      [] u = "Not" -> "not"
      [] u = "Contact" -> "contact"
      [] u \in ConfirmedWords -> "confirmed"
      [] u \in YesWords -> "yes"
      [] u = "BlueInsights" -> "blueinsights"
      [] OTHER -> u

lower(text) == [i \in DOMAIN text |-> lower_unit(text[i])]

\* get_length of a str
get_length(text) == Len(text)

Raised(name) == [outcome |-> name, columns |-> {}, kept |-> <<>>, rows |-> <<>>]

\* the table a call returned: the rows of the sheet it kept, in order
Returned(sh, columns, keep(_), out(_)) ==
    LET kept == SelectSeq([i \in DOMAIN sh.rows |-> i], keep)
    IN [outcome |-> "table", columns |-> columns, kept |-> kept,
        rows |-> [k \in DOMAIN kept |-> out(kept[k])]]

\* clean_data of the refactored three-stage revision
clean_data_refactored(sh, now) ==
    LET date(i) == parse_dates(sh.rows[i].date)
        question(i) == applymap_cell(sh.rows[i].question)
        response(i) == applymap_cell(sh.rows[i].response)
        keep(i) ==
            /\ date(i) # NaT
            /\ date(i) >= cutoff_date(now)
            /\ lower(question(i)) # <<"none">>
            /\ lower(response(i)) # <<"none">>
            /\ lower(response(i)) # <<"nan">>
            /\ get_length(response(i)) # 0
            /\ lower(response(i)) \notin {<<"n/a">>, <<"not", " ", "applicable.">>}
            /\ lower(question(i)) \notin {<<"contact">>}
        out(i) == [date |-> date(i), question |-> question(i), response |-> response(i)]
    IN IF "date" \notin sh.columns THEN Raised("KeyError")
       ELSE IF "question" \notin sh.columns \/ "response" \notin sh.columns
       THEN Raised("KeyError")
       ELSE Returned(sh, sh.columns, keep, out)

\* clean_data of the three-stage revision: parse_dates and get_length are
\* methods of the class and no names of the scope of clean_data
clean_data_three_stage(sh, now) ==
    IF "date" \notin sh.columns THEN Raised("KeyError") ELSE Raised("NameError")

\* clean_data of the keyed revision: pd.DataFrame() without a response
\* column; no other column is required and no row is dropped for its date
clean_data_keyed(sh) ==
    LET keep(i) ==
            /\ sh.rows[i].response.kind # "nan"
            /\ strip(str(sh.rows[i].response)) # <<>>
        out(i) == [date |-> IF "date" \in sh.columns
                            THEN parse_dates(sh.rows[i].date) ELSE NaT,
                   question |-> IF "question" \in sh.columns
                                THEN strip(str(sh.rows[i].question)) ELSE <<>>,
                   response |-> strip(str(sh.rows[i].response))]
    IN IF "response" \in sh.columns
       THEN Returned(sh, sh.columns, keep, out)
       ELSE IF "fixed answer" \in sh.columns
       THEN Returned(sh, (sh.columns \ {"fixed answer"}) \cup {"response"}, keep, out)
       ELSE [outcome |-> "table", columns |-> {}, kept |-> <<>>, rows |-> <<>>]

clean_data_of(r, sh, now) ==
    CASE r = "three_stage" -> clean_data_three_stage(sh, now)
      [] r = "refactored" -> clean_data_refactored(sh, now)
      [] r = "keyed" -> clean_data_keyed(sh)

InitClean ==
    /\ \E n \in 0..MaxSheetRows : sheet \in Sheets(n)
    /\ today \in Todays
    /\ cleaner = "none"
    /\ cleaned = NoResult
    /\ SyncIdle
    /\ PureIdle
    /\ RunIdle
    /\ SelIdle
    /\ MatIdle
    /\ PagIdle
    /\ PairIdle

\* a call of clean_data of revision r on the sheet
CallCleanData(r) ==
    /\ cleaner = "none"
    /\ cleaner' = r
    /\ cleaned' = clean_data_of(r, sheet, today)
    /\ UNCHANGED <<sheet, today, sync, pure, run, sel, mat, pag, pair>>

NextClean == \E r \in CleanRevisions : CallCleanData(r)

SpecClean == InitClean /\ [][NextClean]_vars


(***************************************************************************)
(* Cleaning stage, the rewrite of the confirmations in the column          *)
(* 'response' of the table that is published next.  The responses are      *)
(* sequences of words, full stops and whitespace.                          *)
(***************************************************************************)
MaxConfirmRows == 1 \* rows of the table whose responses are rewritten

ConfirmResponses ==
    {<<c>> : c \in ConfirmedWords}
        \cup {<<c, ".">> : c \in ConfirmedWords}
        \cup {<<c, " ", "via", " ", "BlueInsights", ".">> : c \in ConfirmedWords}
        \cup {<<c, " ", "via", " ", "mail", ".">> : c \in ConfirmedWords}
        \cup {<<y, ".", " ", c, ".">> : y \in YesWords, c \in ConfirmedWords}
        \cup {<<y, ".", c, ".">> : y \in YesWords, c \in ConfirmedWords}
        \cup {<<"r">>, <<"Not", " ", "Confirmed">>, <<"Yes", ".", " ", "Confirmed">>}

ConfirmRows ==
    [client_name : Clients, rfp_type : RfpTypes, consultant : Consultants,
     date : Dates, question : Range(Questions), response : ConfirmResponses]

InitConfirm ==
    /\ \E n \in 0..MaxConfirmRows : df_in \in [1..n -> ConfirmRows]
    /\ df_out = <<>>
    /\ applied = "none"
    /\ SyncIdle
    /\ RunIdle
    /\ SelIdle
    /\ MoreIdle

\* final_rfp_df['response'] = final_rfp_df['response'].str.replace(...)
ConfirmStep == Apply("confirm", confirm_rewrite(df_in))

NextConfirm == ConfirmStep

SpecConfirm == InitConfirm /\ [][NextConfirm]_vars


(***************************************************************************)
(* Document stage, commerercial_rfp_content_doc_library_creation, in two   *)
(* revisions: "module" (src/commercial_rfp_content_doc_library_creation.py) *)
(* and "bundled" (its copy in src/commerical_rfp_data_ingestion_main.py).  *)
(* What get_latest_rfp_content_library_blob returned is an input of the    *)
(* run.  A row of the dataset is the cell of its first column and its      *)
(* key_hash; a key_hash is "RFP_Content_" and the digest, a blob name is a *)
(* head, a body and a tail.  Every call of the blob service may fail.      *)
(***************************************************************************)
MaxDatasetRows == 2 \* rows of the latest canonical dataset

MatRevisions == {"module", "bundled"}

DocPrefix == "RFP_Content_Library_"
KeyPrefix == "RFP_Content_"

RefCells ==
    {[kind |-> "nan", text |-> <<>>],
     [kind |-> "str", text |-> <<>>],
     [kind |-> "str", text |-> <<" ">>],
     [kind |-> "str", text |-> <<"c">>],
     [kind |-> "str", text |-> <<"1">>],
     [kind |-> "float", text |-> <<"1", ".", "0">>]}

KeyHashes == {[head |-> KeyPrefix, body |-> <<d>>] : d \in {"d1", "d2"}}

DatasetRows == [first : RefCells, key_hash : KeyHashes]

\* the datasets of n rows
Datasets(n) == [1..n -> DatasetRows]

\* the documents an earlier run may have left in the container
OldDocs ==
    {[head |-> DocPrefix, body |-> <<"c">>, tail |-> ".docx"],
     [head |-> KeyPrefix, body |-> <<"d1">>, tail |-> ".docx"]}

\* pd.isna(ref_val) or str(ref_val).strip() == ""
skip_row(cell) == cell.kind = "nan" \/ strip(cell.text) = <<>>

\* if isinstance(ref_val, float) and ref_val.is_integer(): ref_val = int(ref_val)
\* and str(ref_val) in the f-string
ref_text(cell) ==
    IF /\ cell.kind = "float"
       /\ Len(cell.text) > 2
       /\ SubSeq(cell.text, Len(cell.text) - 1, Len(cell.text)) = <<".", "0">>
    THEN SubSeq(cell.text, 1, Len(cell.text) - 2)
    ELSE cell.text

\* docx_file_name = f"RFP_Content_Library_{ref_val}.docx"
docx_file_name(row) ==
    [head |-> DocPrefix, body |-> ref_text(row.first), tail |-> ".docx"]

InitMat ==
    /\ mrev \in MatRevisions
    /\ mpc = "latest"
    /\ latest_blob_name \in {"None", "dataset"}
    /\ IF latest_blob_name = "None" THEN dataset = <<>>
       ELSE \E n \in 0..MaxDatasetRows : dataset \in Datasets(n)
    /\ doc_store \in SUBSET OldDocs
    /\ docs_before = doc_store
    /\ mi = 0
    /\ SyncIdle
    /\ PureIdle
    /\ RunIdle
    /\ SelIdle
    /\ ClnIdle
    /\ PagIdle
    /\ PairIdle

\* latest_blob_name = get_latest_rfp_content_library_blob(in_blob_client);
\* if not latest_blob_name: logger.error(...), and in the bundled revision
\* return
CheckLatest ==
    /\ mpc = "latest"
    /\ mpc' = IF latest_blob_name = "None" /\ mrev = "bundled"
              THEN "returned" ELSE "delete"
    /\ UNCHANGED <<mrev, latest_blob_name, dataset, doc_store, docs_before, mi,
                   sync, pure, run, sel, cln, pag, pair>>

\* delete_all_blobs_in_container: the blobs listed are deleted one after the
\* other; a delete that fails raises with the blobs before it gone
DeleteAllBlobs(gone) ==
    /\ mpc = "delete"
    /\ doc_store' = doc_store \ gone
    /\ mpc' = IF gone = doc_store THEN "read" ELSE "handler"
    /\ UNCHANGED <<mrev, latest_blob_name, dataset, docs_before, mi,
                   sync, pure, run, sel, cln, pag, pair>>

\* read_excel_from_blob(in_blob_client, latest_blob_name): raises without a
\* blob name
ReadDataset(ok) ==
    /\ mpc = "read"
    /\ IF ok /\ latest_blob_name # "None"
       THEN mpc' = "rows" /\ mi' = 1
       ELSE mpc' = "handler" /\ mi' = mi
    /\ UNCHANGED <<mrev, latest_blob_name, dataset, doc_store, docs_before,
                   sync, pure, run, sel, cln, pag, pair>>

\* one turn of "for idx, row in df.iterrows()"
MaterializeRow(ok) ==
    /\ mpc = "rows"
    /\ mi <= Len(dataset)
    /\ IF skip_row(dataset[mi].first)
       THEN /\ mi' = mi + 1
            /\ UNCHANGED <<mpc, doc_store>>
       ELSE IF ok
       THEN /\ doc_store' = doc_store \cup {docx_file_name(dataset[mi])}
            /\ mi' = mi + 1
            /\ mpc' = mpc
       ELSE /\ mpc' = "handler"
            /\ UNCHANGED <<mi, doc_store>>
    /\ UNCHANGED <<mrev, latest_blob_name, dataset, docs_before,
                   sync, pure, run, sel, cln, pag, pair>>

\* the end of the try body, after the last row
FinishRows ==
    /\ mpc = "rows"
    /\ mi > Len(dataset)
    /\ mpc' = "returned"
    /\ UNCHANGED <<mrev, latest_blob_name, dataset, doc_store, docs_before, mi,
                   sync, pure, run, sel, cln, pag, pair>>

\* "except Exception": the module revision names log_file_name and
\* config_loader, which the try body binds after the loop only:
\* UnboundLocalError leaves the function; the bundled revision uploads the
\* log and returns
MatHandler ==
    /\ mpc = "handler"
    /\ mpc' = IF mrev = "module" THEN "raised" ELSE "returned"
    /\ UNCHANGED <<mrev, latest_blob_name, dataset, doc_store, docs_before, mi,
                   sync, pure, run, sel, cln, pag, pair>>

NextMat ==
    \/ CheckLatest
    \/ \E gone \in SUBSET doc_store : DeleteAllBlobs(gone)
    \/ \E ok \in BOOLEAN : ReadDataset(ok)
    \/ \E ok \in BOOLEAN : MaterializeRow(ok)
    \/ FinishRows
    \/ MatHandler

SpecMat == InitMat /\ [][NextMat]_vars


(***************************************************************************)
(* Mirror synchronizer, a call of CitationMapper._list_sharepoint_items.    *)
(* The platform serves pages: the page of a URL holds the items of its     *)
(* "value" (none when the key is absent) and the URL of its                *)
(* "@odata.nextLink", 0 when it carries none.  URL 1 is base_url.  The     *)
(* links from base_url form a finite chain.  Every request may fail.       *)
(***************************************************************************)
MaxPages == 3       \* pages the platform holds for the folder
MaxPageItems == 1   \* items of a page

PageItems == {"i1", "i2"}
PageValues == UNION {[1..k -> PageItems] : k \in 0..MaxPageItems}

\* the URLs followed from url, in order, with 0 last when the links do not
\* end within fuel pages
RECURSIVE Follow(_, _, _)
Follow(pg, url, fuel) ==
    IF url = 0 THEN <<>>
    ELSE IF fuel = 0 THEN <<0>>
    ELSE <<url>> \o Follow(pg, pg[url].next, fuel - 1)

\* the pages of n URLs whose links from base_url end
PageChains(n) ==
    {pg \in [1..n -> [value : PageValues, next : 0..n]] :
         0 \notin Range(Follow(pg, 1, n))}

\* mutant: items = data.get("value", [])
extend_Overwrite(acc, value) == value

\* items.extend(data.get("value", []))
extend(acc, value) == acc \o value

InitPages ==
    /\ \E n \in 1..MaxPages : pages \in PageChains(n)
    /\ next_url = 1
    /\ got_items = <<>>
    /\ requested = <<>>
    /\ listed = NoListing
    /\ ppc = "loop"
    /\ SyncIdle
    /\ PureIdle
    /\ RunIdle
    /\ SelIdle
    /\ ClnIdle
    /\ MatIdle
    /\ PairIdle

\* one turn of "while next_url": the request, raise_for_status, extend, and
\* the next link; a request that fails raises out of the function
GetPage(ok) ==
    /\ ppc = "loop"
    /\ next_url # 0
    /\ requested' = Append(requested, next_url)
    /\ IF ok
       THEN /\ got_items' = extend(got_items, pages[next_url].value)
            /\ next_url' = pages[next_url].next
            /\ ppc' = ppc
       ELSE /\ ppc' = "raised"
            /\ UNCHANGED <<got_items, next_url>>
    /\ UNCHANGED <<pages, listed, sync, pure, run, sel, cln, mat, pair>>

\* "while next_url" is left: return items
ReturnItems ==
    /\ ppc = "loop"
    /\ next_url = 0
    /\ listed' = [returned |-> TRUE, items |-> got_items]
    /\ ppc' = "returned"
    /\ UNCHANGED <<pages, next_url, got_items, requested, sync, pure, run, sel,
                   cln, mat, pair>>

NextPages ==
    \/ \E ok \in BOOLEAN : GetPage(ok)
    \/ ReturnItems

SpecPages == InitPages /\ [][NextPages]_vars

\* the call runs on its own thread of control until it returns or raises
SpecPagesFair == SpecPages /\ WF_vars(NextPages)


(***************************************************************************)
(* Mirror synchronizer, the two revisions run one after the other from the  *)
(* same document store and the same external folder: the sequential         *)
(* revision first, then, with the folder put back, the worker-pool          *)
(* revision.  An upload or a delete that the first run made has the same    *)
(* outcome for the same name or item in the second; the token, the          *)
(* listings and the write of the mapping succeed in both.                   *)
(***************************************************************************)
InitPair ==
    /\ rev = "seq"
    /\ pass = 1
    /\ pc = "resolve"
    /\ blobs \in SUBSET Names
    /\ folder \in InitFolders
    /\ mapping = NoMapping
    /\ items_before = <<>>
    /\ existing_names = {}
    /\ new_blob_names = <<>>
    /\ upTask = <<>>
    /\ to_delete = <<>>
    /\ delTask = <<>>
    /\ items_after = <<>>
    /\ df = <<>>
    /\ log = {}
    /\ steps = {}
    /\ prev = NoPrev
    /\ pair = [NoPair EXCEPT !.stage = "first", !.folder0 = folder]
    /\ PureIdle
    /\ RunIdle
    /\ SelIdle
    /\ ClnIdle
    /\ MatIdle
    /\ PagIdle

\* the calls a run made, each with what it answered
CallsMade(keys, tasks) ==
    {<<keys[i], tasks[i]>> : i \in {k \in DOMAIN tasks : tasks[k] \notin {"queued", "running"}}}

\* the outcome is the one the first run saw for the same call, if it made it
Agrees(made, key, outcome) ==
    \A c \in made : c[1] = key => c[2] = outcome

\* the first run is over: what it came to is kept, the folder is put back and
\* the other revision is called
SwitchRevision ==
    /\ pair.stage = "first"
    /\ pc \in {"done", "failed"}
    /\ pair' = [pair EXCEPT !.stage = "second",
                            !.docx = DocxOf(FolderNames(folder)),
                            !.published = mapping.exists,
                            !.files = {mapping.rows[i].file_name : i \in DOMAIN mapping.rows},
                            !.uploads = CallsMade(new_blob_names, upTask),
                            !.deletes = CallsMade(to_delete, delTask)]
    /\ rev' = "pool"
    /\ folder' = pair.folder0
    /\ mapping' = NoMapping
    /\ pc' = "resolve"
    /\ items_before' = <<>>
    /\ existing_names' = {}
    /\ new_blob_names' = <<>>
    /\ upTask' = <<>>
    /\ to_delete' = <<>>
    /\ delTask' = <<>>
    /\ items_after' = <<>>
    /\ df' = <<>>
    /\ log' = {}
    /\ steps' = {}
    /\ UNCHANGED <<pass, blobs, prev, pure, run, sel, cln, mat, pag>>

NextPair ==
    \/ ResolveSite(TRUE)
    \/ ListBefore(TRUE)
    \/ PlanUploads(TRUE)
    \/ \E o \in UploadOutcomes : SeqUpload(o)
    \/ \E i \in 1..Len(upTask) : StartUpload(i)
    \/ \E i \in 1..Len(upTask), o \in UploadOutcomes :
           Agrees(pair.uploads, new_blob_names[i], o) /\ FinishUpload(i, o)
    \/ JoinUploads
    \/ PlanDeletes(TRUE)
    \/ \E o \in {"ok", "http_error", "exception", "skipped"} : SeqDelete(o)
    \/ \E i \in 1..Len(delTask) : StartDelete(i)
    \/ \E i \in 1..Len(delTask), o \in {"ok", "http_error", "exception", "skipped"} :
           Agrees(pair.deletes, to_delete[i], o) /\ FinishDelete(i, o)
    \/ JoinDeletes
    \/ Relist(TRUE)
    \/ PublishMapping(TRUE)
    \/ SwitchRevision

SpecPair == InitPair /\ [][NextPair]_vars


\* ------------------------------------------------------------------ claims
SrcDocx == DocxOf(blobs)
ExtDocx == DocxOf(FolderNames(folder))
ExtDocxBefore == DocxOf(existing_names)
Ended == pc \in {"done", "failed"}
OkIdx(tasks) == {i \in DOMAIN tasks : tasks[i] = "ok"}
UploadedNames == {new_blob_names[i] : i \in OkIdx(upTask)}
DeletedNames == {to_delete[i].name : i \in OkIdx(delTask)}
DeletedIds == {to_delete[i].id : i \in OkIdx(delTask)}

\* C1: mirror convergence.  After a pass that ran to its end with every
\* upload call and every delete call (the delete step included) succeeding,
\* the .docx names of the external folder are exactly the .docx names of the
\* document store: exactly S \ E was uploaded and exactly E \ S was deleted.
C1_MirrorConvergence ==
    CleanPass =>
        /\ ExtDocx = SrcDocx
        /\ UploadedNames = SrcDocx \ ExtDocxBefore
        /\ DeletedNames = ExtDocxBefore \ SrcDocx

\* a clean pass that uploaded one name and deleted another
C1_Witness ==
    /\ CleanPass
    /\ UploadedNames # {}
    /\ DeletedNames # {}
    /\ ExtDocx = SrcDocx

\* C2 as stated: after every pass that published the mapping, failed item
\* uploads or deletes included, the external .docx names equal the store's.
C2_Original == pc = "done" => ExtDocx = SrcDocx

\* the orphaned .docx items of the pre-sync listing no delete has removed
SurvivingOrphans ==
    {items_before[k].name : k \in {j \in DOMAIN items_before :
        /\ IsDocx(items_before[j].name)
        /\ items_before[j].name \notin SrcDocx
        /\ items_before[j].id \notin DeletedIds}}

\* C2 (amended): after every pass that published the mapping, the external
\* .docx names are the store's names that were there before or whose upload
\* succeeded, plus the orphaned names with an item whose delete did not
\* succeed; they equal the store's exactly when no upload failed and no
\* orphaned item survived.
C2_MirrorUpToFailures ==
    pc = "done" =>
        /\ ExtDocx = (SrcDocx \cap ExtDocxBefore) \cup UploadedNames \cup SurvivingOrphans
        /\ (ExtDocx = SrcDocx) <=>
              (/\ \A i \in DOMAIN upTask : upTask[i] = "ok"
               /\ SurvivingOrphans = {})

\* a published pass with a failed upload and a failed delete
C2_Witness ==
    /\ pc = "done"
    /\ \E i \in DOMAIN upTask : upTask[i] \in {"http_error", "exception"}
    /\ \E i \in DOMAIN delTask : delTask[i] \in {"http_error", "exception", "skipped"}
    /\ ExtDocx # SrcDocx

RowSet(rows) == {rows[i] : i \in DOMAIN rows}
Started(tasks) == {i \in DOMAIN tasks : tasks[i] # "queued"}

FailedIdx(tasks) ==
    {i \in DOMAIN tasks : tasks[i] \in {"http_error", "exception", "skipped"}}

\* the steps after s still ran: each is entered unless a listing of the pass
\* itself failed before it
LaterStepsRan(after) ==
    /\ after \subseteq steps
    /\ "relist" \in steps
    /\ ("listing_failed" \notin log => "publish" \in steps)

\* C4: upload failure isolation.  In a pass that has ended with a failed
\* upload (exception or refused request), every document selected for upload
\* was attempted, and the delete step, the re-listing and the publish ran.
C4_UploadFailureIsolation ==
    (Ended /\ FailedIdx(upTask) # {}) =>
        /\ Started(upTask) = DOMAIN upTask
        /\ LaterStepsRan({"delete"})

\* C5: delete failure isolation.  In a pass that has ended with a failed
\* delete (exception, refused request or missing id), every orphaned item
\* selected was attempted, and the re-listing and the publish ran.
C5_DeleteFailureIsolation ==
    (Ended /\ FailedIdx(delTask) # {}) =>
        /\ Started(delTask) = DOMAIN delTask
        /\ LaterStepsRan({})

\* C6: step ordering.  The delete step is entered only when no upload task
\* is queued or running, the re-listing only when no upload task and no
\* delete task is running (and, under the pool, none is queued), and no
\* delete task has started while an upload task is unfinished.
C6_StepOrdering ==
    /\ "delete" \in steps => Unfinished(upTask) = {}
    /\ Started(delTask) # {} => Unfinished(upTask) = {}
    /\ (pc = "relist" \/ "relist" \in steps) =>
          /\ Unfinished(upTask) = {}
          /\ Running(delTask) = {}
          /\ (rev = "pool" => Unfinished(delTask) = {})

\* the pool revision re-lists after an upload task and a delete task finished
C6_Witness ==
    /\ rev = "pool"
    /\ pc = "publish"
    /\ OkIdx(upTask) # {}
    /\ OkIdx(delTask) # {}

\* the .docx items of a listing, by index, and those that carry a webUrl
DocxIdx(items) == {k \in DOMAIN items : IsDocx(items[k].name)}
UrlIdx(items) == {k \in DocxIdx(items) : items[k].hasUrl}
LastOfName(items, idx, k) == \A l \in idx : items[l].name = items[k].name => l <= k
RowOf(item) == [file_name |-> item.name, preview_url |-> WebUrl(item)]
UniqueByFileName(rows) ==
    \A i, j \in DOMAIN rows : rows[i].file_name = rows[j].file_name => i = j

\* C7 as stated: at most one row per file_name; of the .docx items that share
\* a name the row carries the webUrl of the item listed last; the duplicate
\* warning is logged exactly in the passes whose listing has a duplicate name.
C7_Original ==
    pc = "done" =>
        /\ UniqueByFileName(df)
        /\ \A k \in DocxIdx(items_after) :
              LastOfName(items_after, DocxIdx(items_after), k)
                  => RowOf(items_after[k]) \in RowSet(df)
        /\ ("dup_warning" \in log) <=>
              (\E k, l \in DocxIdx(items_after) :
                   k # l /\ items_after[k].name = items_after[l].name)

\* C7 (amended): at most one row per file_name; the rows are those of the
\* .docx items that carry a webUrl, and of the items that share a name the
\* row is that of the last-listed item carrying a webUrl; the duplicate
\* warning is logged exactly in the passes where two .docx items carrying a
\* webUrl share a name.
C7_MappingUniqueness ==
    pc = "done" =>
        /\ UniqueByFileName(df)
        /\ RowSet(df) = {RowOf(items_after[k]) :
                            k \in {j \in UrlIdx(items_after) :
                                      LastOfName(items_after, UrlIdx(items_after), j)}}
        /\ ("dup_warning" \in log) <=>
              (\E k, l \in UrlIdx(items_after) :
                   k # l /\ items_after[k].name = items_after[l].name)

\* a published pass whose listing had two .docx items of one name, both with
\* a webUrl: one row, the later item's, and the warning
C7_Witness ==
    /\ pc = "done"
    /\ "dup_warning" \in log
    /\ Len(df) = 1
    /\ \E k, l \in UrlIdx(items_after) :
          /\ k < l
          /\ items_after[k].name = items_after[l].name
          /\ df[1] = RowOf(items_after[l])

\* C8: a pass that reaches the publish step always hands a table to the
\* artifact write, the empty table included, and the artifact is that table
\* when the write succeeds; the rows are those of the folder as it is after
\* the upload and delete steps: every row is an item now in the folder, and
\* every .docx item now in the folder that carries a webUrl has a row.
C8_MappingFromPostListing ==
    pc = "done" =>
        /\ "publish" \in steps
        /\ "mapping_written" \in log
        /\ ("blob_uploaded" \in log => mapping = [exists |-> TRUE, rows |-> df])
        /\ \A r \in RowSet(df) : \E k \in DOMAIN folder : RowOf(folder[k]) = r
        /\ \A k \in UrlIdx(folder) : \E r \in RowSet(df) : r.file_name = folder[k].name

\* the empty table was written after the only .docx item of the pre-sync
\* listing, which carried a webUrl, was deleted
C8_Witness ==
    /\ pc = "done"
    /\ "blob_uploaded" \in log
    /\ df = <<>>
    /\ mapping = [exists |-> TRUE, rows |-> <<>>]
    /\ UrlIdx(items_before) # {}
    /\ DeletedIds # {}

\* C9: abort semantics.  After a failed listing (in the upload step, the
\* delete step or the re-listing) the pass is over: no later step runs, no
\* mapping is published and none is reported written; after a failed write
\* of the artifact no mapping is reported written.
C9_AbortSemantics ==
    /\ "listing_failed" \in log =>
          /\ pc = "failed"
          /\ "publish" \notin steps
          /\ "mapping_written" \notin log
    /\ "write_failed" \in log => "mapping_written" \notin log

NonDocxItems(f) == SelectSeq(f, LAMBDA it : ~IsDocx(it.name))

\* C10: managed-extension frame.  Every name selected for upload, every
\* entry selected for deletion and every row of the mapping has a .docx
\* name, and no step changes the document store or the non-.docx items of
\* the external folder.
C10_ManagedExtensionFrame ==
    /\ [](/\ \A i \in DOMAIN new_blob_names : IsDocx(new_blob_names[i])
          /\ \A i \in DOMAIN to_delete : IsDocx(to_delete[i].name)
          /\ \A r \in RowSet(df) \cup RowSet(mapping.rows) : IsDocx(r.file_name))
    /\ [][/\ blobs' = blobs
          /\ NonDocxItems(folder') = NonDocxItems(folder)]_vars

\* a published pass that uploaded and deleted while a non-.docx name was in
\* the store only and another non-.docx item in the folder only
C10_Witness ==
    /\ pc = "done"
    /\ UploadedNames # {}
    /\ DeletedIds # {}
    /\ \E n \in blobs : ~IsDocx(n)
    /\ NonDocxItems(folder) # <<>>

QRPairs(rows) == {<<rows[i].question, rows[i].response>> : i \in DOMAIN rows}
RowsOfQuestion(rows, q) == {i \in DOMAIN rows : rows[i].question = q}
QuestionsOf(rows) == {rows[i].question : i \in DOMAIN rows}

\* out keeps rows of inp only, and exactly one for every (question, response)
OnePerPair(inp, out) ==
    /\ Range(out) \subseteq Range(inp)
    /\ \A p \in QRPairs(inp) :
           Cardinality({i \in DOMAIN out : <<out[i].question, out[i].response>> = p}) = 1

\* C11: exact-duplicate removal.  Whatever the other columns hold, step 1
\* (drop_duplicates_same_question_and_response, in either revision) returns
\* exactly one row for every distinct (question, response) of its input.
C11_ExactDuplicateRemoval ==
    applied \in {"step1", "step1_rev1"} => OnePerPair(df_in, df_out)

MaxDateOf(rows, q) == MaxOf({rows[i].date : i \in RowsOfQuestion(rows, q)})

\* the rows that carry the maximum date of their own question
MostRecent(rows) == {i \in DOMAIN rows : rows[i].date = MaxDateOf(rows, rows[i].question)}

\* C12: same-question conflict.  Whatever the number of distinct questions
\* in the table, a row survives step 2 (same_question_duplicate_response)
\* if and only if its date is the maximum date among the rows that share its
\* own question.
C12_SameQuestionConflict ==
    applied = "step2" =>
        /\ Len(df_out) = Cardinality(MostRecent(df_in))
        /\ Range(df_out) = {df_in[i] : i \in MostRecent(df_in)}

\* C13: longest-response tie-break.  Step 3
\* (get_unique_date_question_with_longest_response) returns exactly one row
\* for every distinct question of its input; that row has the greatest
\* character count of the response among the rows of its question, and among
\* the rows tied at that count it is the one that comes first in the input.
C13_LongestResponseTieBreak ==
    applied = "step3" =>
        /\ QuestionsOf(df_out) = QuestionsOf(df_in)
        /\ \A q \in QuestionsOf(df_in) : Cardinality(RowsOfQuestion(df_out, q)) = 1
        /\ \A k \in DOMAIN df_out :
               \E i \in RowsOfQuestion(df_in, df_out[k].question) :
                   /\ df_out[k] = df_in[i]
                   /\ \A j \in RowsOfQuestion(df_in, df_out[k].question) :
                          /\ Len(df_in[j].response) <= Len(df_in[i].response)
                          /\ Len(df_in[j].response) = Len(df_in[i].response) /\ j < i
                                 => df_in[j] = df_in[i]

\* two rows of one question tie at the greatest count and differ in another
\* column, a shorter response of the question comes before them, and the
\* first of the tied rows is the one returned
C13_Witness ==
    /\ applied = "step3"
    /\ \E i, j, s \in DOMAIN df_in :
           /\ s < i /\ i < j
           /\ df_in[i].question = df_in[j].question
           /\ df_in[s].question = df_in[i].question
           /\ Len(df_in[s].response) < Len(df_in[i].response)
           /\ Len(df_in[i].response) = Len(df_in[j].response)
           /\ df_in[i] # df_in[j]
           /\ df_in[i] \in Range(df_out)
           /\ df_in[j] \notin Range(df_out)

\* C14: end-to-end deduplication.  After step 1, step 2 and step 3 run in
\* this order on a normalized table, exactly one row survives for every
\* distinct question, and the date of the surviving row is the maximum date
\* found among all rows of the table with that question.
C14_EndToEndDedup ==
    applied = "dedup_chain" =>
        /\ QuestionsOf(df_out) = QuestionsOf(df_in)
        /\ \A k \in DOMAIN df_out :
               /\ Cardinality(RowsOfQuestion(df_out, df_out[k].question)) = 1
               /\ df_out[k].date = MaxDateOf(df_in, df_out[k].question)

\* the six fields the key is said to identify
KeyFields(row) ==
    <<row.client_name, row.date, row.rfp_type, row.consultant, row.question,
      row.response>>

\* C15: key identity.  With the digest treated as injective, two records of
\* a keyed table have the same key_hash if and only if they agree on client,
\* date, rfp_type, consultant, question and response: the digest is taken of
\* the full field values, response included, whitespace preserved.
C15_KeyIdentity ==
    applied = "add_rfp_keys" =>
        \A i, j \in DOMAIN df_out :
            df_out[i].key_hash = df_out[j].key_hash <=>
                KeyFields(df_out[i]) = KeyFields(df_out[j])

DataSteps(r) ==
    {"download", "clean_data", "dedup", "confirm"}
        \cup (IF r = "keyed" THEN {"keys"} ELSE {})

\* C17: no partial publish.  In every run of commercial_rfp_data_cleaning in
\* which a step (download, normalization, deduplication, confirmation
\* rewrite, key derivation) raises, the canonical dataset is not written;
\* its write comes after every data-producing step has succeeded and no
\* data-producing step follows it.
C17_NoPartialPublish ==
    /\ exc # "none" => library = {}
    /\ library # {} => DataSteps(crev) \subseteq Range(trace)
    /\ \A i, j \in DOMAIN trace :
           trace[i] = "publish" /\ i < j => trace[j] \notin DataSteps(crev)

\* the key derivation raised after the dedup calls and the rewrite had
\* succeeded on a table with rows: the run returned with the library empty
C17_Witness ==
    /\ crev = "keyed"
    /\ cpc = "returned"
    /\ exc = "TypeError"
    /\ {"dedup", "confirm", "keys", "raised"} \subseteq Range(trace)
    /\ frame.rows # <<>>
    /\ library = {}

\* C18: raw archive ordering.  In every run the input is written to the
\* raw-data store before clean_data runs, and what is archived is the input
\* as it was downloaded, with no modification applied before the write.
C18_RawArchiveOrdering ==
    /\ "clean_data" \in Range(trace) => raw_store # {}
    /\ raw_store \subseteq {workbook}

\* C19: log always written.  Every run of the cleaning stage, whether it
\* succeeds or fails, has attempted to write a log artifact by the time it
\* returns, and a run that failed leaves the stage with the failure, so that
\* its caller can tell it from a run that succeeded.
C19_LogAlwaysWritten ==
    cpc \in {"returned", "raised"} =>
        /\ log_attempts >= 1
        /\ exc # "none" => cpc = "raised"

\* a name of the form RFP_content_library_{YYYYMMDD}.xlsx with a date
OfTheForm(name) ==
    /\ name.head = Prefix
    /\ name.tail = ".xlsx"
    /\ Len(name.body) = 8
    /\ strptime(name.body) # 0

\* C20: latest-dataset selection.  For any set of blob names the function
\* returns the name of the form RFP_content_library_{YYYYMMDD}.xlsx whose
\* embedded date is the maximum among the names of that form with a parsable
\* date, whatever the listing order and the modification times; every other
\* name is ignored, and None is returned when no name qualifies.
C20_LatestDatasetSelection ==
    lpc = "returned" =>
        LET formed == {listing[i].name : i \in {k \in DOMAIN listing : OfTheForm(listing[k].name)}}
        IN IF formed = {} THEN latest = NoName
           ELSE /\ latest \in formed
                /\ \A n \in formed : strptime(n.body) <= strptime(latest.body)

\* the text of a cell as a reader of the sheet sees it: trimmed, lower case,
\* nothing for an empty cell
Seen(cell) == IF cell.kind = "nan" THEN <<>> ELSE lower(strip(cell.text))

PlaceholderTexts == {<<>>, <<"none">>, <<"nan">>, <<"n/a">>, <<"not", " ", "applicable.">>}

\* a row of the sheet that holds a placeholder
PlaceholderRow(row) ==
    \/ Seen(row.question) \in PlaceholderTexts \cup {<<"contact">>}
    \/ Seen(row.response) \in PlaceholderTexts

RequiredColumns == {"date", "question", "response"}

\* C21: date cutoff boundary.  With cutoff = processing date minus 36
\* calendar months, clean_data returns a table that retains a row with a
\* parsed date (and no placeholder) if and only if the date is on or after
\* the cutoff: the day of the cutoff and the day after are retained, the day
\* before is dropped.
C21_DateCutoffBoundary ==
    (cleaner # "none" /\ RequiredColumns \subseteq sheet.columns) =>
        /\ cleaned.outcome = "table"
        /\ \A i \in DOMAIN sheet.rows :
               (parse_dates(sheet.rows[i].date) # NaT /\ ~PlaceholderRow(sheet.rows[i])) =>
                   (i \in Range(cleaned.kept)
                        <=> parse_dates(sheet.rows[i].date) >= cutoff_date(today))

ConfirmationForms ==
    {<<"confirmed">>, <<"confirmed", ".">>,
     <<"confirmed", " ", "via", " ", "blueinsights", ".">>,
     <<"confirmed", " ", "via", " ", "mail", ".">>,
     <<"yes", ".", " ", "confirmed", ".">>}

\* the whole trimmed value is a confirmation, in any case
IsConfirmation(text) == lower(strip(text)) \in ConfirmationForms

\* C22: confirmation normalization.  Every response whose whole trimmed value
\* is, in any case, "confirmed", "confirmed.", "confirmed via blueinsights.",
\* "confirmed via mail." or "yes. confirmed." is exactly "Confirmed" in the
\* table that is published, with no prefix and no suffix left over.
C22_ConfirmationNormalization ==
    applied = "confirm" =>
        \A i \in DOMAIN df_in :
            IsConfirmation(df_in[i].response) => df_out[i].response = <<"Confirmed">>

\* C23: placeholder rows never reach the canonical dataset.  In the table
\* clean_data returns no row has an empty question or response, none has a
\* question or a response that is, in any case, "none", "nan", "n/a" or
\* "not applicable.", and none has the question "contact"; rows whose
\* question cell was empty in the sheet included.
C23_NoPlaceholderRows ==
    cleaned.outcome = "table" =>
        \A k \in DOMAIN cleaned.rows :
            /\ lower(strip(cleaned.rows[k].response)) \notin PlaceholderTexts
            /\ "question" \in cleaned.columns =>
                   lower(strip(cleaned.rows[k].question))
                       \notin PlaceholderTexts \cup {<<"contact">>}

\* the sheet lacks a column clean_data cannot do without
SchemaFailure(columns) ==
    \/ "response" \notin columns /\ "fixed answer" \notin columns
    \/ "question" \notin columns
    \/ "date" \notin columns

\* C24: schema failure.  On a table with neither 'response' nor 'fixed
\* answer', or without 'question' or 'date', clean_data fails with an error
\* and returns no table, empty or otherwise; on any other table, one with
\* 'fixed answer' alone included, it returns a table with a 'response' column.
C24_SchemaFailure ==
    cleaner # "none" =>
        IF SchemaFailure(sheet.columns)
        THEN cleaned.outcome \notin {"none", "table"}
        ELSE cleaned.outcome = "table" /\ "response" \in cleaned.columns

\* the .docx names of a store
DocxNames(store) == {n \in store : n.tail = ".docx"}

\* C25: document naming.  Every per-record document the materializer writes
\* is named key_hash + ".docx" for the key_hash of the row it renders: after
\* a materialization that ran to its end the .docx names of the document
\* store are the names key_hash + ".docx" over the rows of the dataset.
C25_DocumentNaming ==
    (mpc = "returned" /\ latest_blob_name # "None" /\ mi > Len(dataset)) =>
        DocxNames(doc_store) =
            {[head |-> dataset[i].key_hash.head, body |-> dataset[i].key_hash.body,
              tail |-> ".docx"] : i \in DOMAIN dataset}

\* C29: the document store is emptied only when a dataset was found.  When
\* get_latest_rfp_content_library_blob returned None, no document is deleted
\* and the contents of the store are what they were before the call.
C29_NoDeleteWithoutDataset ==
    latest_blob_name = "None" => doc_store = docs_before

\* a task that has returned
Finished(tasks) == {i \in DOMAIN tasks : tasks[i] \notin {"queued", "running"}}

\* C26: immutable plan under concurrency.  The names to upload are computed
\* once, from the listing taken before the upload step, before the pool
\* starts: they are the .docx names of the store that the listing lacks,
\* each of them once, with one upload task each.  While the pool runs the
\* plan and the listing do not change and a task that has returned does not
\* run again, whatever the interleaving of the workers.
C26_ImmutablePlan ==
    /\ []((rev = "pool" /\ "upload" \in steps) =>
            /\ Range(new_blob_names) = DocxOf(blobs) \ FolderNames(items_before)
            /\ Len(upTask) = Len(new_blob_names)
            /\ \A i, j \in DOMAIN new_blob_names :
                   i # j => new_blob_names[i] # new_blob_names[j])
    /\ [][(rev = "pool" /\ pc = "uploading") =>
            /\ new_blob_names' = new_blob_names
            /\ existing_names' = existing_names
            /\ items_before' = items_before
            /\ \A i \in Finished(upTask) : upTask'[i] = upTask[i]]_vars

\* two names were planned while the listing held an item; the second upload
\* has succeeded while the first is still running
C26_Witness ==
    /\ rev = "pool"
    /\ pc = "uploading"
    /\ items_before # <<>>
    /\ Len(new_blob_names) = 2
    /\ upTask = <<"running", "ok">>

\* the items of the pages of a sequence of URLs, concatenated in order
RECURSIVE ItemsAlong(_)
ItemsAlong(urls) ==
    IF urls = <<>> THEN <<>>
    ELSE pages[Head(urls)].value \o ItemsAlong(Tail(urls))

\* the URLs of the chain, from base_url on
ChainOf == Follow(pages, 1, Len(pages))

\* C27: paginated discovery.  On any finite chain of pages
\* _list_sharepoint_items requests the pages once each in chain order; when
\* it returns, it has requested the whole chain and returns the items of all
\* pages concatenated in that order; once a request has failed it has raised
\* and returned nothing; and the call ends, by return or by raise.
C27_PaginatedDiscovery ==
    /\ [](ppc # "idle" =>
            /\ Len(requested) <= Len(ChainOf)
            /\ requested = SubSeq(ChainOf, 1, Len(requested))
            /\ ppc = "returned" =>
                   /\ requested = ChainOf
                   /\ listed = [returned |-> TRUE, items |-> ItemsAlong(ChainOf)]
            /\ ppc # "returned" => listed = NoListing)
    /\ <>(ppc \in {"returned", "raised"})

\* three pages with items were read in an order that is not that of their
\* URLs, and the listing returned
C27_Witness ==
    /\ ppc = "returned"
    /\ requested = <<1, 3, 2>>
    /\ Len(listed.items) = 3

\* C28: the concurrent synchronizer refines the sequential one.  From the
\* same document store and the same external folder, with the same outcome
\* of each upload and each delete call, the worker-pool revision ends with
\* the .docx names in the external folder that the sequential revision ended
\* with and publishes a mapping of the same file names if and only if the
\* sequential revision published one, in every interleaving of the workers.
C28_PoolRefinesSequential ==
    (pair.stage = "second" /\ pc \in {"done", "failed"}) =>
        /\ DocxOf(FolderNames(folder)) = pair.docx
        /\ mapping.exists = pair.published
        /\ {mapping.rows[i].file_name : i \in DOMAIN mapping.rows} = pair.files

\* the delete tasks that have sent their request
Issued(tasks) == {i \in DOMAIN tasks : tasks[i] \in {"running", "ok", "http_error", "exception"}}

\* C30: no live document is deleted.  With the document store unchanged,
\* every entry selected for deletion has a name that is no .docx name of the
\* store, and no delete request is issued for an item of the external folder
\* whose name is a .docx name of the store, a name uploaded earlier in the
\* same pass included.
C30_NoLiveDocumentDeleted ==
    /\ \A i \in DOMAIN to_delete : to_delete[i].name \notin DocxOf(blobs)
    /\ \A i \in Issued(delTask) :
           \A k \in DOMAIN folder :
               folder[k].id = to_delete[i].id => folder[k].name \notin DocxOf(blobs)
    /\ \A i \in DOMAIN new_blob_names :
           upTask[i] = "ok" =>
               \A j \in DOMAIN to_delete : to_delete[j].name # new_blob_names[i]

\* the pool revision has sent the delete request for an orphaned item after
\* it uploaded a document in the same pass, which is still in the folder
C30_Witness ==
    /\ rev = "pool"
    /\ pc = "deleting"
    /\ \E i \in DOMAIN delTask : delTask[i] = "running"
    /\ \E i \in DOMAIN upTask :
           upTask[i] = "ok" /\ new_blob_names[i] \in FolderNames(folder)
====
